---- MODULE Spec2Model ----
(***************************************************************************)
(* SmartQueryHandler of the MIDC land-bank chatbot                          *)
(* (src/improved_query_handler.py): the query rewriting pipeline            *)
(* improve_query and the language classifier should_respond_in_marathi.     *)
(*                                                                         *)
(* A Python str is modelled as the sequence of its code points, so that    *)
(* lower(), the Devanagari range test, substring containment,               *)
(* str.replace, str.split and " ".join are computed as Python computes      *)
(* them.  A dict is the sequence of its <<key, value>> items in insertion  *)
(* order; a key that the source literal writes twice appears once, at its  *)
(* first position and with its last value, as in a Python dict.            *)
(***************************************************************************)
EXTENDS Integers, Sequences, FiniteSets, TLC

VARIABLES handler, call, threads, service, scraper

vars == <<handler, call, threads, service, scraper>>

----------------------------------------------------------------------------
(* Python str primitives over code-point sequences.                        *)

LowerLetters == "abcdefghijklmnopqrstuvwxyz"

UpperLetters == "ABCDEFGHIJKLMNOPQRSTUVWXYZ"

\* ord() of a one-character TLA+ string of the alphabet used in literals.
Ord(c) ==
    IF c = " " THEN 32
    ELSE IF c = "-" THEN 45
    ELSE IF c = "." THEN 46
    ELSE IF c = "_" THEN 95
    ELSE IF \E i \in 1..26 : SubSeq(LowerLetters, i, i) = c
         THEN 96 + (CHOOSE i \in 1..26 : SubSeq(LowerLetters, i, i) = c)
         ELSE 64 + (CHOOSE i \in 1..26 : SubSeq(UpperLetters, i, i) = c)

\* A string literal of the source as its code points.
Str(s) == [i \in 1..Len(s) |-> Ord(SubSeq(s, i, i))]

\* str.lower() on one character: A-Z map to a-z; Devanagari has no case.
LowerChar(c) == IF c >= 65 /\ c <= 90 THEN c + 32 ELSE c

\* str.lower()
Lower(s) == [i \in 1..Len(s) |-> LowerChar(s[i])]

\* '\\u0900' <= char <= '\\u097F'
IsDevanagari(c) == c >= 2304 /\ c <= 2431

\* The characters str.split() and the regex \s treat as white space.
IsSpace(c) == c \in {9, 10, 11, 12, 13, 28, 29, 30, 31, 32}

\* The characters the regex \w matches: ASCII letters, digits, underscore,
\* and the Devanagari letters and digits (vowel signs and virama are not).
IsWordChar(c) ==
    \/ c >= 97 /\ c <= 122
    \/ c >= 65 /\ c <= 90
    \/ c >= 48 /\ c <= 57
    \/ c = 95
    \/ c >= 2308 /\ c <= 2361
    \/ c = 2365 \/ c = 2384
    \/ c >= 2392 /\ c <= 2401
    \/ c >= 2406 /\ c <= 2415
    \/ c >= 2417 /\ c <= 2431

\* s[i:] starts with sub
StartsAt(s, i, sub) ==
    /\ i + Len(sub) - 1 <= Len(s)
    /\ \A j \in 1..Len(sub) : s[i + j - 1] = sub[j]

\* Python's "sub in s" on strings.
IsIn(sub, s) == \E i \in 1..(Len(s) - Len(sub) + 1) : StartsAt(s, i, sub)

\* Python's "x in list".
InList(x, list) == \E i \in 1..Len(list) : list[i] = x

\* Python's "key in dict".
HasKey(d, k) == \E i \in 1..Len(d) : d[i][1] = k

\* The exception a direct d[k] raises on a missing key.
KeyError == <<-1>>

\* Python's d[k].
GetItem(d, k) ==
    IF HasKey(d, k) THEN d[CHOOSE i \in 1..Len(d) : d[i][1] = k][2] ELSE KeyError

\* str.replace(old, new) from position i on: left to right, non-overlapping.
RECURSIVE ReplaceFrom(_, _, _, _)
ReplaceFrom(s, i, old, new) ==
    IF i > Len(s) THEN <<>>
    ELSE IF StartsAt(s, i, old) THEN new \o ReplaceFrom(s, i + Len(old), old, new)
    ELSE <<s[i]>> \o ReplaceFrom(s, i + 1, old, new)

\* str.replace(old, new), old not empty.
Replace(s, old, new) == ReplaceFrom(s, 1, old, new)

\* The last index of the run of non-white-space characters starting at i.
RECURSIVE TokenEnd(_, _)
TokenEnd(s, i) ==
    IF i <= Len(s) /\ ~IsSpace(s[i]) THEN TokenEnd(s, i + 1) ELSE i - 1

\* The last index of the run of white space starting at i (i - 1 if none).
RECURSIVE SpaceEnd(_, _)
SpaceEnd(s, i) ==
    IF i <= Len(s) /\ IsSpace(s[i]) THEN SpaceEnd(s, i + 1) ELSE i - 1

\* The last index of the run of \w characters starting at i (i - 1 if none).
RECURSIVE WordEnd(_, _)
WordEnd(s, i) ==
    IF i <= Len(s) /\ IsWordChar(s[i]) THEN WordEnd(s, i + 1) ELSE i - 1

\* str.split(): the maximal runs of non-white-space characters, in order.
RECURSIVE SplitFrom(_, _)
SplitFrom(s, i) ==
    IF i > Len(s) THEN <<>>
    ELSE IF IsSpace(s[i]) THEN SplitFrom(s, i + 1)
    ELSE LET e == TokenEnd(s, i)
         IN  <<SubSeq(s, i, e)>> \o SplitFrom(s, e + 1)

Split(s) == SplitFrom(s, 1)

\* sep.join(parts)
RECURSIVE Join(_, _)
Join(sep, parts) ==
    IF Len(parts) = 0 THEN <<>>
    ELSE IF Len(parts) = 1 THEN parts[1]
    ELSE parts[1] \o sep \o Join(sep, Tail(parts))

\* str.strip() is empty: every character is white space.
IsBlank(s) == \A i \in 1..Len(s) : IsSpace(s[i])

----------------------------------------------------------------------------
(* The tables SmartQueryHandler.__init__ builds (lines 12-306).  Devanagari *)
(* strings are written as their code points.                               *)

region_mappings ==
    <<
    <<Str("pune"), Str("RO PUNE-I RO PUNE-II")>>,
    <<Str("punya"), Str("RO PUNE-I RO PUNE-II")>>,
    <<Str("puny"), Str("RO PUNE-I RO PUNE-II")>>,
    <<Str("chandrapur"), Str("RO Chandrapur")>>,
    <<Str("baramati"), Str("RO Baramati")>>,
    <<Str("nagpur"), Str("RO NAGPUR")>>,
    <<Str("ratnagiri"), Str("RO RATNAGIRI")>>,
    <<Str("aurangabad"), Str("RO AURANGABAD")>>,
    <<Str("mumbai"), Str("RO THANE-I RO THANE-II")>>,
    <<Str("thane"), Str("RO THANE-I RO THANE-II")>>,
    <<Str("amravati"), Str("RO AMRAVATI")>>,
    <<Str("dhule"), Str("RO DHULE")>>,
    <<Str("jalgaon"), Str("RO Jalgaon")>>,
    <<Str("bhusaval"), Str("RO Jalgaon")>>,
    <<Str("bhusawal"), Str("RO Jalgaon")>>,
    <<Str("bhusawad"), Str("RO Jalgaon")>>,
    <<<<2346, 2369, 2339, 2375>>, Str("RO PUNE-I RO PUNE-II")>>,
    <<<<2330, 2306, 2342, 2381, 2352, 2346, 2370, 2352>>, Str("RO Chandrapur")>>,
    <<<<2348, 2366, 2352, 2366, 2350, 2340, 2368>>, Str("RO Baramati")>>,
    <<<<2344, 2366, 2327, 2346, 2370, 2352>>, Str("RO NAGPUR")>>,
    <<<<2352, 2340, 2381, 2344, 2366, 2327, 2367, 2352, 2368>>, Str("RO RATNAGIRI")>>,
    <<<<2324, 2352, 2306, 2327, 2366, 2348, 2366, 2342>>, Str("RO AURANGABAD")>>,
    <<<<2350, 2369, 2306, 2348, 2312>>, Str("RO THANE-I RO THANE-II")>>,
    <<<<2336, 2366, 2339, 2375>>, Str("RO THANE-I RO THANE-II")>>,
    <<<<2309, 2350, 2352, 2366, 2357, 2340, 2368>>, Str("RO AMRAVATI")>>,
    <<<<2343, 2369, 2355, 2375>>, Str("RO DHULE")>>,
    <<<<2332, 2355, 2327, 2366, 2357>>, Str("RO Jalgaon")>>,
    <<<<2349, 2369, 2360, 2366, 2357, 2355>>, Str("RO Jalgaon")>>,
    <<<<2349, 2369, 2360, 2366, 2357, 2354>>, Str("RO Jalgaon")>>
    >>

area_to_ro_mappings ==
    <<
    <<Str("bhusaval"), Str("RO Jalgaon")>>,
    <<Str("bhusawal"), Str("RO Jalgaon")>>,
    <<Str("bhusawad"), Str("RO Jalgaon")>>,
    <<Str("talegaon"), Str("RO PUNE-I")>>,
    <<Str("chakan"), Str("RO PUNE-I")>>,
    <<Str("hinjawadi"), Str("RO PUNE-II")>>,
    <<Str("rajiv gandhi infotech park"), Str("RO PUNE-II")>>,
    <<Str("wardha"), Str("RO Chandrapur")>>,
    <<Str("addl. chandrapur"), Str("RO Chandrapur")>>,
    <<Str("baramati"), Str("RO Baramati")>>,
    <<Str("nagpur"), Str("RO NAGPUR")>>,
    <<Str("borgaon meghe"), Str("RO NAGPUR")>>,
    <<Str("bhivapur"), Str("RO NAGPUR")>>,
    <<Str("ratnagiri"), Str("RO RATNAGIRI")>>,
    <<Str("aurangabad"), Str("RO AURANGABAD")>>,
    <<Str("thane"), Str("RO THANE-I")>>,
    <<Str("ambarnath"), Str("RO THANE-II")>>,
    <<Str("kalyan"), Str("RO THANE-II")>>,
    <<Str("bhiwandi"), Str("RO THANE-II")>>,
    <<Str("amravati"), Str("RO AMRAVATI")>>,
    <<Str("ghatanji"), Str("RO AMRAVATI")>>,
    <<Str("bhatkuli"), Str("RO AMRAVATI")>>,
    <<Str("dhule"), Str("RO DHULE")>>,
    <<Str("nandurbar"), Str("RO DHULE")>>,
    <<Str("bhaler"), Str("RO DHULE")>>
    >>

property_mappings ==
    <<
    <<Str("residential"), Str("Residential")>>,
    <<Str("commercial"), Str("Commercial")>>,
    <<Str("industrial"), Str("Industrial")>>,
    <<Str("plots"), Str("Industrial")>>,
    <<Str("plot"), Str("Industrial")>>,
    <<Str("land"), Str("Industrial")>>,
    <<Str("price"), Str("Industrial")>>,
    <<Str("rates"), Str("Industrial")>>,
    <<<<2324, 2342, 2381, 2351, 2379, 2327, 2367, 2325>>, Str("Industrial")>>,
    <<<<2325, 2377, 2350, 2352, 2381, 2358, 2367, 2351, 2354>>, Str("Commercial")>>,
    <<<<2352, 2361, 2367, 2357, 2366, 2360, 2368>>, Str("Residential")>>,
    <<<<2346, 2381, 2354, 2377, 2335>>, Str("Industrial")>>,
    <<<<2332, 2350, 2368, 2344>>, Str("Industrial")>>,
    <<<<2325, 2367, 2306, 2350, 2340>>, Str("Industrial")>>,
    <<<<2342, 2352>>, Str("Industrial")>>
    >>

mixed_language_mappings ==
    <<
    <<Str("punya"), Str("pune")>>,
    <<Str("puny"), Str("pune")>>,
    <<Str("plots"), Str("plots")>>,
    <<Str("aahet"), Str("are")>>,
    <<Str("aahe"), Str("are")>>,
    <<Str("ka"), Str("what")>>,
    <<Str("kay"), Str("what")>>,
    <<Str("price"), Str("price")>>,
    <<Str("kimi"), Str("price")>>,
    <<Str("kimti"), Str("price")>>,
    <<Str("dar"), Str("rate")>>,
    <<Str("rate"), Str("rate")>>,
    <<Str("rates"), Str("rates")>>
    >>

marathi_transliteration_tokens ==
    <<
    <<Str("ka"), Str("what")>>,
    <<Str("kay"), Str("what")>>,
    <<Str("kuthe"), Str("where")>>,
    <<Str("kase"), Str("how")>>,
    <<Str("kadhi"), Str("when")>>,
    <<Str("kiti"), Str("how many")>>,
    <<Str("koni"), Str("who")>>,
    <<Str("kashi"), Str("how")>>,
    <<Str("kashala"), Str("why")>>,
    <<Str("kuthun"), Str("from where")>>,
    <<Str("madhe"), Str("in")>>,
    <<Str("madhye"), Str("in")>>,
    <<Str("madhyat"), Str("in")>>,
    <<Str("var"), Str("on")>>,
    <<Str("la"), Str("to")>>,
    <<Str("hun"), Str("from")>>,
    <<Str("pasun"), Str("from")>>,
    <<Str("sathi"), Str("for")>>,
    <<Str("barobar"), Str("with")>>,
    <<Str("sobat"), Str("with")>>,
    <<Str("aahet"), Str("are")>>,
    <<Str("aahe"), Str("are")>>,
    <<Str("ahe"), Str("is")>>,
    <<Str("nahi"), Str("not")>>,
    <<Str("hoi"), Str("yes")>>,
    <<Str("dya"), Str("give")>>,
    <<Str("dakhav"), Str("show")>>,
    <<Str("shodh"), Str("find")>>,
    <<Str("vach"), Str("read")>>,
    <<Str("sang"), Str("tell")>>,
    <<Str("bol"), Str("say")>>,
    <<Str("kar"), Str("do")>>,
    <<Str("ghya"), Str("take")>>,
    <<Str("de"), Str("give")>>,
    <<Str("le"), Str("take")>>,
    <<Str("jameen"), Str("land")>>,
    <<Str("bhumi"), Str("land")>>,
    <<Str("plot"), Str("plot")>>,
    <<Str("plots"), Str("plots")>>,
    <<Str("bhukhand"), Str("plot")>>,
    <<Str("sthal"), Str("place")>>,
    <<Str("jaga"), Str("place")>>,
    <<Str("sthala"), Str("place")>>,
    <<Str("kimti"), Str("price")>>,
    <<Str("kimmat"), Str("price")>>,
    <<Str("dar"), Str("rate")>>,
    <<Str("mulya"), Str("value")>>,
    <<Str("kharcha"), Str("cost")>>,
    <<Str("paisa"), Str("money")>>,
    <<Str("rupya"), Str("rupees")>>,
    <<Str("rs"), Str("rupees")>>,
    <<Str("rupees"), Str("rupees")>>,
    <<Str("motha"), Str("big")>>,
    <<Str("lahan"), Str("small")>>,
    <<Str("swast"), Str("cheap")>>,
    <<Str("mahag"), Str("expensive")>>,
    <<Str("jast"), Str("more")>>,
    <<Str("kami"), Str("less")>>,
    <<Str("sagla"), Str("all")>>,
    <<Str("ek"), Str("one")>>,
    <<Str("don"), Str("two")>>,
    <<Str("teen"), Str("three")>>,
    <<Str("char"), Str("four")>>,
    <<Str("pach"), Str("five")>>,
    <<Str("aata"), Str("now")>>,
    <<Str("aaj"), Str("today")>>,
    <<Str("kal"), Str("yesterday")>>,
    <<Str("udya"), Str("tomorrow")>>,
    <<Str("parso"), Str("day after")>>,
    <<Str("upalabdh"), Str("available")>>,
    <<Str("mila"), Str("got")>>,
    <<Str("nako"), Str("no")>>,
    <<Str("kendr"), Str("center")>>,
    <<Str("karya"), Str("work")>>,
    <<Str("karyalay"), Str("office")>>,
    <<Str("prant"), Str("region")>>,
    <<Str("ani"), Str("and")>>,
    <<Str("pan"), Str("but")>>,
    <<Str("ki"), Str("or")>>,
    <<Str("mhanun"), Str("therefore")>>,
    <<Str("karan"), Str("because")>>,
    <<Str("jari"), Str("even if")>>,
    <<Str("tar"), Str("then")>>,
    <<Str("maga"), Str("then")>>,
    <<Str("nantar"), Str("after")>>,
    <<Str("adhi"), Str("before")>>,
    <<Str("krupaya"), Str("please")>>,
    <<Str("dhanyawad"), Str("thank you")>>,
    <<Str("maaf"), Str("sorry")>>,
    <<Str("namaskar"), Str("hello")>>,
    <<Str("namaste"), Str("hello")>>
    >>

semantic_synonyms ==
    <<
    <<Str("pune"), <<Str("punya"), Str("puny"), Str("pune"), <<2346, 2369, 2339, 2375>>>>>>,
    <<Str("mumbai"), <<Str("mumbai"), Str("bombay"), <<2350, 2369, 2306, 2348, 2312>>>>>>,
    <<Str("bhusaval"), <<Str("bhusaval"), Str("bhusawal"), Str("bhusawad"), <<2349, 2369, 2360, 2366, 2357, 2355>>>>>>,
    <<Str("jalgaon"), <<Str("jalgaon"), Str("jalgon"), Str("jalgaun"), <<2332, 2355, 2327, 2366, 2357>>>>>>,
    <<Str("nagpur"), <<Str("nagpur"), <<2344, 2366, 2327, 2346, 2370, 2352>>>>>>,
    <<Str("aurangabad"), <<Str("aurangabad"), <<2324, 2352, 2306, 2327, 2366, 2348, 2366, 2342>>>>>>,
    <<Str("thane"), <<Str("thane"), <<2336, 2366, 2339, 2375>>>>>>,
    <<Str("amravati"), <<Str("amravati"), <<2309, 2350, 2352, 2366, 2357, 2340, 2368>>>>>>,
    <<Str("dhule"), <<Str("dhule"), <<2343, 2369, 2355, 2375>>>>>>,
    <<Str("chandrapur"), <<Str("chandrapur"), <<2330, 2306, 2342, 2381, 2352, 2346, 2370, 2352>>>>>>,
    <<Str("ratnagiri"), <<Str("ratnagiri"), <<2352, 2340, 2381, 2344, 2366, 2327, 2367, 2352, 2368>>>>>>,
    <<Str("baramati"), <<Str("baramati"), <<2348, 2366, 2352, 2366, 2350, 2340, 2368>>>>>>,
    <<Str("plots"), <<Str("plots"), Str("plot"), Str("land"), <<2332, 2350, 2368, 2344>>, <<2346, 2381, 2354, 2377, 2335>>, <<2349, 2370, 2326, 2306, 2337>>>>>>,
    <<Str("industrial"), <<Str("industrial"), <<2324, 2342, 2381, 2351, 2379, 2327, 2367, 2325>>, Str("industry"), Str("manufacturing")>>>>,
    <<Str("commercial"), <<Str("commercial"), <<2325, 2377, 2350, 2352, 2381, 2358, 2367, 2351, 2354>>, Str("business"), Str("office")>>>>,
    <<Str("residential"), <<Str("residential"), <<2352, 2361, 2367, 2357, 2366, 2360, 2368>>, Str("housing"), Str("home")>>>>,
    <<Str("price"), <<Str("price"), Str("cost"), Str("rate"), Str("rates"), <<2325, 2367, 2306, 2350, 2340>>, <<2342, 2352>>, <<2350, 2370, 2354, 2381, 2351>>>>>>,
    <<Str("cheap"), <<Str("cheap"), Str("low"), Str("affordable"), Str("budget"), <<2360, 2381, 2357, 2360, 2381, 2340>>, <<2325, 2350, 2368>>>>>>,
    <<Str("expensive"), <<Str("expensive"), Str("high"), Str("costly"), <<2350, 2361, 2366, 2327>>, <<2332, 2366, 2360, 2381, 2340>>>>>>,
    <<Str("available"), <<Str("available"), <<2313, 2346, 2354, 2348, 2381, 2343>>, Str("aahet"), Str("aahe"), Str("have"), Str("got")>>>>,
    <<Str("show"), <<Str("show"), <<2342, 2366, 2326, 2357, 2366>>, Str("dakhav"), Str("display"), Str("list")>>>>,
    <<Str("find"), <<Str("find"), Str("search"), Str("look"), <<2358, 2379, 2343>>, Str("shodh")>>>>,
    <<Str("get"), <<Str("get"), Str("give"), <<2342, 2381, 2351, 2366>>, Str("dya"), Str("provide")>>>>,
    <<Str("what"), <<Str("what"), Str("ka"), Str("kay"), <<2325, 2366, 2351>>, Str("kay"), Str("which")>>>>,
    <<Str("where"), <<Str("where"), Str("kuthe"), <<2325, 2369, 2336, 2375>>, Str("location")>>>>,
    <<Str("how"), <<Str("how"), Str("kase"), <<2325, 2360, 2375>>, Str("method")>>>>,
    <<Str("when"), <<Str("when"), Str("kadhi"), <<2325, 2343, 2368>>, Str("time")>>>>,
    <<Str("ro"), <<Str("ro"), Str("regional office"), <<2346, 2381, 2352, 2366, 2342, 2375, 2358, 2367, 2325>> \o Str(" ") \o <<2325, 2366, 2352, 2381, 2351, 2366, 2354, 2351>>>>>>,
    <<Str("office"), <<Str("office"), <<2325, 2366, 2352, 2381, 2351, 2366, 2354, 2351>>, Str("kendr")>>>>
    >>

intent_patterns ==
    <<
    <<Str("availability"), <<Str("available"), Str("aahet"), Str("aahe"), Str("have"), Str("got"), <<2313, 2346, 2354, 2348, 2381, 2343>>>>>>,
    <<Str("price_inquiry"), <<Str("price"), Str("cost"), Str("rate"), Str("rates"), <<2325, 2367, 2306, 2350, 2340>>, <<2342, 2352>>, Str("kay"), Str("what")>>>>,
    <<Str("location_search"), <<Str("in"), Str("madhe"), Str("madhye"), Str("at"), <<2350, 2343, 2381, 2351, 2375>>, Str("location")>>>>,
    <<Str("property_type"), <<Str("plots"), Str("industrial"), Str("commercial"), Str("residential"), <<2346, 2381, 2354, 2377, 2335>>>>>>,
    <<Str("comparison"), <<Str("compare"), Str("vs"), Str("versus"), Str("difference"), <<2340, 2369, 2354, 2344, 2366>>>>>>,
    <<Str("cheapest"), <<Str("cheap"), Str("lowest"), Str("minimum"), <<2360, 2381, 2357, 2360, 2381, 2340>>, <<2325, 2350, 2368>>>>>>,
    <<Str("largest"), <<Str("big"), Str("large"), Str("maximum"), <<2350, 2379, 2336, 2375>>, <<2332, 2366, 2360, 2381, 2340>>>>>>
    >>

spelling_variations ==
    <<
    <<Str("bhusaval"), <<Str("bhusawal"), Str("bhusawad"), Str("bhusawal"), Str("bhusaval")>>>>,
    <<Str("jalgaon"), <<Str("jalgaon"), Str("jalgon"), Str("jalgaun")>>>>,
    <<Str("pune"), <<Str("pune"), Str("punee"), Str("puna")>>>>,
    <<Str("mumbai"), <<Str("mumbai"), Str("mumbay"), Str("bombay")>>>>,
    <<Str("chandrapur"), <<Str("chandrapur"), Str("chandrapur"), Str("chandrapur")>>>>,
    <<Str("nagpur"), <<Str("nagpur"), Str("nagpur"), Str("nagpur")>>>>,
    <<Str("aurangabad"), <<Str("aurangabad"), Str("aurangabad"), Str("aurangabad")>>>>,
    <<Str("amravati"), <<Str("amravati"), Str("amravati"), Str("amravati")>>>>,
    <<Str("dhule"), <<Str("dhule"), Str("dhule"), Str("dhule")>>>>,
    <<Str("ratnagiri"), <<Str("ratnagiri"), Str("ratnagiri"), Str("ratnagiri")>>>>
    >>

----------------------------------------------------------------------------
(* SmartQueryHandler.__init__: the instance holds the tables.  The         *)
(* attribute _last_query_was_transliteration does not exist until          *)
(* _handle_mixed_language first assigns it.                                *)

SmartQueryHandler ==
    [ region_mappings |-> region_mappings,
      area_to_ro_mappings |-> area_to_ro_mappings,
      property_mappings |-> property_mappings,
      mixed_language_mappings |-> mixed_language_mappings,
      marathi_transliteration_tokens |-> marathi_transliteration_tokens,
      semantic_synonyms |-> semantic_synonyms,
      intent_patterns |-> intent_patterns,
      spelling_variations |-> spelling_variations,
      has_last_query_was_transliteration |-> FALSE,
      last_query_was_transliteration |-> FALSE ]

\* The tables of an instance, without the transliteration flag.
Tables(self) ==
    [ region_mappings |-> self.region_mappings,
      area_to_ro_mappings |-> self.area_to_ro_mappings,
      property_mappings |-> self.property_mappings,
      mixed_language_mappings |-> self.mixed_language_mappings,
      marathi_transliteration_tokens |-> self.marathi_transliteration_tokens,
      semantic_synonyms |-> self.semantic_synonyms,
      intent_patterns |-> self.intent_patterns,
      spelling_variations |-> self.spelling_variations ]

----------------------------------------------------------------------------
(* _extract_locations (lines 313-337)                                      *)

\* re.findall(r'ro\s+(\w+)', s) from position i on: the words captured by
\* the successive non-overlapping matches, left to right.
RECURSIVE FindallRo(_, _)
FindallRo(s, i) ==
    IF i > Len(s) THEN <<>>
    ELSE IF StartsAt(s, i, <<114, 111>>)
         THEN LET se == SpaceEnd(s, i + 2)
                  we == WordEnd(s, se + 1)
              IN  IF se >= i + 2 /\ we >= se + 1
                  THEN <<SubSeq(s, se + 1, we)>> \o FindallRo(s, we + 1)
                  ELSE FindallRo(s, i + 1)
         ELSE FindallRo(s, i + 1)

\* The (city, ro) items whose office name contains the captured word.
RoMentions(self, ro_match) ==
    SelectSeq(self.region_mappings, LAMBDA it : IsIn(ro_match, Lower(it[2])))

RECURSIVE RoLocations(_, _)
RoLocations(self, ro_matches) ==
    IF Len(ro_matches) = 0 THEN <<>>
    ELSE RoMentions(self, Head(ro_matches)) \o RoLocations(self, Tail(ro_matches))

\* Faulty variant of _extract_locations: the loop over region_mappings
\* (lines 319-321) is missing.
_extract_locations_areas_only(self, query) ==
    LET query_lower == Lower(query)
        areas == SelectSeq(self.area_to_ro_mappings, LAMBDA it : IsIn(it[1], query_lower))
        ro_matches == FindallRo(query_lower, 1)
    IN  areas \o RoLocations(self, ro_matches)

\* Faulty variant of _extract_locations: the query is scanned in its own
\* letter case (line 315 is missing).
_extract_locations_own_case(self, query) ==
    LET query_lower == query
        cities == SelectSeq(self.region_mappings, LAMBDA it : IsIn(it[1], query_lower))
        areas == SelectSeq(self.area_to_ro_mappings, LAMBDA it : IsIn(it[1], query_lower))
        ro_matches == FindallRo(query_lower, 1)
    IN  cities \o areas \o RoLocations(self, ro_matches)

_extract_locations(self, query) ==
    LET query_lower == Lower(query)
        cities == SelectSeq(self.region_mappings, LAMBDA it : IsIn(it[1], query_lower))
        areas == SelectSeq(self.area_to_ro_mappings, LAMBDA it : IsIn(it[1], query_lower))
        ro_matches == FindallRo(query_lower, 1)
    IN  cities \o areas \o RoLocations(self, ro_matches)

----------------------------------------------------------------------------
(* _handle_spelling_mistakes (lines 339-352)                               *)

\* The (correct_word, variation) pairs in the order the two loops visit them.
RECURSIVE VariationPairs(_)
VariationPairs(table) ==
    IF Len(table) = 0 THEN <<>>
    ELSE [j \in 1..Len(table[1][2]) |-> <<table[1][1], table[1][2][j]>>]
         \o VariationPairs(Tail(table))

\* Faulty variant of CorrectFrom: once the last pair has been visited the
\* pairs are visited a second time over the text corrected so far.
RECURSIVE CorrectFromTwice(_, _, _, _)
CorrectFromTwice(pairs, k, query_lower, corrected_query) ==
    IF k > 2 * Len(pairs) THEN corrected_query
    ELSE LET n == IF k > Len(pairs) THEN k - Len(pairs) ELSE k
             text == IF k > Len(pairs) THEN Lower(corrected_query) ELSE query_lower
             correct_word == pairs[n][1]
             variation == pairs[n][2]
         IN  IF IsIn(variation, text) /\ variation # correct_word
             THEN CorrectFromTwice(pairs, k + 1, query_lower,
                                   Replace(corrected_query, variation, correct_word))
             ELSE CorrectFromTwice(pairs, k + 1, query_lower, corrected_query)

\* The loop body: the membership test reads the lower-cased ORIGINAL query,
\* the replacement acts on the text corrected so far.
RECURSIVE CorrectFrom(_, _, _, _)
CorrectFrom(pairs, k, query_lower, corrected_query) ==
    IF k > Len(pairs) THEN corrected_query
    ELSE LET correct_word == pairs[k][1]
             variation == pairs[k][2]
         IN  IF IsIn(variation, query_lower) /\ variation # correct_word
             THEN CorrectFrom(pairs, k + 1, query_lower,
                              Replace(corrected_query, variation, correct_word))
             ELSE CorrectFrom(pairs, k + 1, query_lower, corrected_query)

_handle_spelling_mistakes(self, query) ==
    CorrectFrom(VariationPairs(self.spelling_variations), 1, Lower(query), query)

----------------------------------------------------------------------------
(* _handle_mixed_language (lines 429-465)                                  *)

\* The first root, in table order, whose synonym list holds the word.
HasSynonymRoot(self, word_lower) ==
    \E i \in 1..Len(self.semantic_synonyms) :
        InList(word_lower, self.semantic_synonyms[i][2])

\* Faulty variant of FirstSynonymRoot: the last root whose list holds the
\* word (the loop of line 447 does not break).
LastSynonymRoot(self, word_lower) ==
    LET i == CHOOSE i \in 1..Len(self.semantic_synonyms) :
                 /\ InList(word_lower, self.semantic_synonyms[i][2])
                 /\ \A j \in (i + 1)..Len(self.semantic_synonyms) :
                        ~InList(word_lower, self.semantic_synonyms[j][2])
    IN  self.semantic_synonyms[i][1]

FirstSynonymRoot(self, word_lower) ==
    LET i == CHOOSE i \in 1..Len(self.semantic_synonyms) :
                 /\ InList(word_lower, self.semantic_synonyms[i][2])
                 /\ \A j \in 1..(i - 1) :
                        ~InList(word_lower, self.semantic_synonyms[j][2])
    IN  self.semantic_synonyms[i][1]

\* Faulty variant of ImprovedWord: an unmatched word is kept in lower case.
ImprovedWordLowered(self, word) ==
    LET word_lower == Lower(word)
    IN  IF HasKey(self.marathi_transliteration_tokens, word_lower)
        THEN GetItem(self.marathi_transliteration_tokens, word_lower)
        ELSE IF HasSynonymRoot(self, word_lower)
        THEN FirstSynonymRoot(self, word_lower)
        ELSE IF HasKey(self.mixed_language_mappings, word_lower)
        THEN GetItem(self.mixed_language_mappings, word_lower)
        ELSE word_lower

\* Faulty variant of ImprovedWord: the transliteration table is indexed
\* without the membership test of line 440.
ImprovedWordUnguarded(self, word) ==
    GetItem(self.marathi_transliteration_tokens, Lower(word))

\* The body of the loop over words (lines 436-460): what is appended to
\* improved_words for one word.
ImprovedWord(self, word) ==
    LET word_lower == Lower(word)
    IN  IF HasKey(self.marathi_transliteration_tokens, word_lower)
        THEN GetItem(self.marathi_transliteration_tokens, word_lower)
        ELSE IF HasSynonymRoot(self, word_lower)
        THEN FirstSynonymRoot(self, word_lower)
        ELSE IF HasKey(self.mixed_language_mappings, word_lower)
        THEN GetItem(self.mixed_language_mappings, word_lower)
        ELSE word

\* marathi_transliteration_detected after the loop (lines 433, 442).
TransliterationDetected(self, words) ==
    \E i \in 1..Len(words) :
        HasKey(self.marathi_transliteration_tokens, Lower(words[i]))

\* Faulty variant of _handle_mixed_language: the flag starts from the stored
\* attribute instead of False, so it is never reset.
_handle_mixed_language_sticky(self, query) ==
    LET words == Split(query)
        improved_words == [i \in 1..Len(words) |-> ImprovedWord(self, words[i])]
    IN  [ value |-> Join(<<32>>, improved_words),
          flag |-> self.last_query_was_transliteration
                       \/ TransliterationDetected(self, words),
          raised |-> InList(KeyError, improved_words) ]

\* Returns the joined text; flag is the value line 463 stores in
\* self._last_query_was_transliteration; raised tells that a lookup raised
\* before line 463 was reached.
_handle_mixed_language(self, query) ==
    LET words == Split(query)
        improved_words == [i \in 1..Len(words) |-> ImprovedWord(self, words[i])]
    IN  [ value |-> Join(<<32>>, improved_words),
          flag |-> TransliterationDetected(self, words),
          raised |-> InList(KeyError, improved_words) ]

----------------------------------------------------------------------------
(* _detect_user_intent (lines 467-478), _extract_root_concepts (480-526)   *)

\* Faulty variant of AnyIn: only the first pattern of the list is tested.
AnyInFirst(patterns, query_lower) ==
    Len(patterns) > 0 /\ IsIn(patterns[1], query_lower)

\* One of the patterns occurs in the lower-cased query.
AnyIn(patterns, query_lower) ==
    \E j \in 1..Len(patterns) : IsIn(patterns[j], query_lower)

\* The keys of a root -> list table, in table order, one of whose list
\* entries occurs in the lower-cased query.
_detect_user_intent(self, query) ==
    LET query_lower == Lower(query)
        hits == SelectSeq(self.intent_patterns,
                          LAMBDA it : AnyIn(it[2], query_lower))
    IN  [i \in 1..Len(hits) |-> hits[i][1]]

\* One of the four loops of _extract_root_concepts: the roots of the given
\* list, in semantic_synonyms order, one of whose synonyms occurs.
RootsIn(self, roots, query_lower) ==
    LET hits == SelectSeq(self.semantic_synonyms,
                          LAMBDA it : InList(it[1], roots) /\ AnyIn(it[2], query_lower))
    IN  [i \in 1..Len(hits) |-> hits[i][1]]

LocationRoots ==
    << Str("pune"), Str("mumbai"), Str("bhusaval"), Str("jalgaon"), Str("nagpur"),
       Str("aurangabad"), Str("thane"), Str("amravati"), Str("dhule"),
       Str("chandrapur"), Str("ratnagiri"), Str("baramati") >>

PropertyRoots == << Str("plots"), Str("industrial"), Str("commercial"), Str("residential") >>

PriceRoots == << Str("price"), Str("cheap"), Str("expensive") >>

AvailabilityRoots == << Str("available"), Str("show"), Str("find"), Str("get") >>

_extract_root_concepts(self, query) ==
    LET query_lower == Lower(query)
    IN  [ locations |-> RootsIn(self, LocationRoots, query_lower),
          property_types |-> RootsIn(self, PropertyRoots, query_lower),
          price_related |-> RootsIn(self, PriceRoots, query_lower),
          availability_related |-> RootsIn(self, AvailabilityRoots, query_lower),
          intents |-> _detect_user_intent(self, query) ]

----------------------------------------------------------------------------
(* improve_query (lines 354-427)                                           *)

\* Faulty variant of AppendOffices: the location name is appended instead
\* of its ro.
RECURSIVE AppendOfficesCity(_, _, _)
AppendOfficesCity(locations, k, improvements) ==
    IF k > Len(locations) THEN improvements
    ELSE IF InList(locations[k][1], improvements)
         THEN AppendOfficesCity(locations, k + 1, improvements)
         ELSE AppendOfficesCity(locations, k + 1, Append(improvements, locations[k][1]))

\* Faulty variant of AppendOffices: the membership test of line 378 is
\* missing.
AppendOfficesAll(locations, k, improvements) ==
    improvements \o [i \in 1..(Len(locations) - k + 1) |-> locations[k + i - 1][2]]

\* Step 5 (lines 377-380): the ro of each location, skipping one already in
\* the list.
RECURSIVE AppendOffices(_, _, _)
AppendOffices(locations, k, improvements) ==
    IF k > Len(locations) THEN improvements
    ELSE IF InList(locations[k][2], improvements)
         THEN AppendOffices(locations, k + 1, improvements)
         ELSE AppendOffices(locations, k + 1, Append(improvements, locations[k][2]))

\* Step 6 (lines 383-386): the label of each detected property type that is
\* a key of property_mappings.
PropertyLabels(self, property_types) ==
    LET known == SelectSeq(property_types, LAMBDA p : HasKey(self.property_mappings, p))
    IN  [i \in 1..Len(known) |-> GetItem(self.property_mappings, known[i])]

\* Step 7 (lines 389-395).
PricePhrase(price_term) ==
    IF price_term = Str("cheap") THEN Str("low cost affordable budget")
    ELSE IF price_term = Str("expensive") THEN Str("high cost premium")
    ELSE Str("price rate cost")

PricePhrases(price_related) ==
    [i \in 1..Len(price_related) |-> PricePhrase(price_related[i])]

\* Faulty variant of AvailabilityPhrases: the phrase is appended for each
\* detected availability root.
AvailabilityPhrasesEach(availability_related) ==
    [i \in 1..Len(availability_related) |-> Str("available plots land")]

\* Step 8 (lines 399-400).
AvailabilityPhrases(availability_related) ==
    IF Len(availability_related) > 0 THEN <<Str("available plots land")>> ELSE <<>>

\* Faulty variant of IntentPhrase: the phrases of cheapest and largest are
\* exchanged.
IntentPhraseSwapped(intent) ==
    IF intent = Str("cheapest") THEN <<Str("maximum biggest")>>
    ELSE IF intent = Str("largest") THEN <<Str("minimum lowest affordable")>>
    ELSE IF intent = Str("comparison") THEN <<Str("compare different options")>>
    ELSE <<>>

\* Step 9 (lines 404-410): what one intent appends.
IntentPhrase(intent) ==
    IF intent = Str("cheapest") THEN <<Str("minimum lowest affordable")>>
    ELSE IF intent = Str("largest") THEN <<Str("maximum biggest")>>
    ELSE IF intent = Str("comparison") THEN <<Str("compare different options")>>
    ELSE <<>>

RECURSIVE IntentPhrases(_)
IntentPhrases(intents) ==
    IF Len(intents) = 0 THEN <<>>
    ELSE IntentPhrase(Head(intents)) \o IntentPhrases(Tail(intents))

\* Faulty variant of AnchorPhrases: detected locations do not count as
\* relevant terms.
AnchorPhrasesNoLocations(concepts) ==
    IF \/ Len(concepts.property_types) > 0
       \/ Len(concepts.price_related) > 0
       \/ Len(concepts.availability_related) > 0
    THEN <<Str("MIDC Industrial Area")>>
    ELSE <<>>

\* Faulty variant of AnchorPhrases: detected intents count as relevant
\* terms too.
AnchorPhrasesWithIntents(concepts) ==
    IF \/ Len(concepts.locations) > 0
       \/ Len(concepts.property_types) > 0
       \/ Len(concepts.price_related) > 0
       \/ Len(concepts.availability_related) > 0
       \/ Len(concepts.intents) > 0
    THEN <<Str("MIDC Industrial Area")>>
    ELSE <<>>

\* Step 10 (lines 414-416).
AnchorPhrases(concepts) ==
    IF \/ Len(concepts.locations) > 0
       \/ Len(concepts.property_types) > 0
       \/ Len(concepts.price_related) > 0
       \/ Len(concepts.availability_related) > 0
    THEN <<Str("MIDC Industrial Area")>>
    ELSE <<>>

\* Variant of Combine that appends only the phrases the corrected query
\* does not hold yet, whatever their letter case (a rewrite that does not
\* append twice).
CombineNew(corrected_query, improvements) ==
    LET fresh == SelectSeq(improvements,
                           LAMBDA p : ~IsIn(Lower(p), Lower(corrected_query)))
    IN  IF Len(fresh) > 0
        THEN corrected_query \o <<32>> \o Join(<<32>>, fresh)
        ELSE corrected_query

\* Faulty variant of Combine: the improvements are put before the
\* corrected query.
CombineImprovementsFirst(corrected_query, improvements) ==
    IF Len(improvements) > 0
    THEN Join(<<32>>, improvements) \o <<32>> \o corrected_query
    ELSE corrected_query

\* Step 11 (lines 420-424).
Combine(corrected_query, improvements) ==
    IF Len(improvements) > 0
    THEN corrected_query \o <<32>> \o Join(<<32>>, improvements)
    ELSE corrected_query

\* The whole method: its locals, the value it returns (improved_query), the
\* flag _handle_mixed_language stores, and whether a lookup raised.
improve_query(self, query) ==
    LET concepts == _extract_root_concepts(self, query)
        mixed == _handle_mixed_language(self, query)
        mixed_query == mixed.value
        corrected_query == _handle_spelling_mistakes(self, mixed_query)
        locations == _extract_locations(self, corrected_query)
        offices == AppendOffices(locations, 1, <<>>)
        property_labels == PropertyLabels(self, concepts.property_types)
        price_phrases == PricePhrases(concepts.price_related)
        availability_phrases == AvailabilityPhrases(concepts.availability_related)
        intent_phrases == IntentPhrases(concepts.intents)
        anchor_phrases == AnchorPhrases(concepts)
        improvements == offices \o property_labels \o price_phrases
                        \o availability_phrases \o intent_phrases \o anchor_phrases
    IN  [ concepts |-> concepts,
          mixed_query |-> mixed_query,
          corrected_query |-> corrected_query,
          locations |-> locations,
          offices |-> offices,
          property_labels |-> property_labels,
          price_phrases |-> price_phrases,
          availability_phrases |-> availability_phrases,
          intent_phrases |-> intent_phrases,
          anchor_phrases |-> anchor_phrases,
          improvements |-> improvements,
          improved_query |-> Combine(corrected_query, improvements),
          flag |-> mixed.flag,
          raised |-> mixed.raised \/ InList(KeyError, improvements) ]

----------------------------------------------------------------------------
(* should_respond_in_marathi (lines 528-557)                               *)

\* Faulty variant of has_devanagari: only the first character is tested.
has_devanagari_first_char(query) == Len(query) > 0 /\ IsDevanagari(query[1])

has_devanagari(query) == \E i \in 1..Len(query) : IsDevanagari(query[i])

\* Faulty variant of marathi_tokens_found: a key counts only when it is a
\* whole token of the query.
marathi_tokens_found_exact(self, query_lower) ==
    Cardinality({ i \in 1..Len(self.marathi_transliteration_tokens) :
                    InList(self.marathi_transliteration_tokens[i][1], Split(query_lower)) })

\* The number of keys of the table that occur in the lower-cased query.
marathi_tokens_found(self, query_lower) ==
    Cardinality({ i \in 1..Len(self.marathi_transliteration_tokens) :
                    IsIn(self.marathi_transliteration_tokens[i][1], query_lower) })

\* Faulty variant of marathi_patterns: two patterns that are no keys of
\* marathi_transliteration_tokens are listed as well.
marathi_patterns_with_names ==
    << Str("madhe"), Str("madhye"), Str("aahet"), Str("aahe"), Str("kay"), Str("ka"),
       Str("kuthe"), Str("dya"), Str("dakhav"), Str("shodh"), Str("kimti"), Str("dar"),
       Str("swast"), Str("mahag"), Str("pune"), Str("xyz") >>

marathi_patterns ==
    << Str("madhe"), Str("madhye"), Str("aahet"), Str("aahe"), Str("kay"), Str("ka"),
       Str("kuthe"), Str("dya"), Str("dakhav"), Str("shodh"), Str("kimti"), Str("dar"),
       Str("swast"), Str("mahag") >>

pattern_count(query_lower) ==
    Cardinality({ i \in 1..Len(marathi_patterns) : IsIn(marathi_patterns[i], query_lower) })

should_respond_in_marathi(self, query) ==
    LET query_lower == Lower(query)
    IN  IF has_devanagari(query) THEN TRUE
        ELSE IF marathi_tokens_found(self, query_lower) >= 2 THEN TRUE
        ELSE IF pattern_count(query_lower) >= 2 THEN TRUE
        ELSE FALSE

----------------------------------------------------------------------------
(* The queries the callers pass.                                           *)

\* The longest generated query, in tokens.
MaxTokens == 2

\* The longest output that is fed back to improve_query.
MaxRerunLen == 70

\* Devanagari "pune" (U+092A U+0941 U+0923 U+0947).
PuneDevanagari == <<2346, 2369, 2339, 2375>>

\* Devanagari "plot" (U+092A U+094D U+0932 U+0949 U+091F).
PlotDevanagari == <<2346, 2381, 2354, 2377, 2335>>

Vocabulary ==
    { Str("plots"), Str("pune"), Str("aahet"), Str("xyz"), PuneDevanagari }

\* Every sequence of 1..MaxTokens words, joined by single spaces.
Generated ==
    { Join(<<32>>, ts) : ts \in UNION { [1..n -> Vocabulary] : n \in 1..MaxTokens } }

\* The queries of the specification's examples and of the module's own test
\* (lines 564-574), and queries with irregular white space, upper case,
\* partial words and no table match at all.
Examples ==
    { Str("plots available in pune"),
      Str("plots madhe aahet ka"),
      Str("plots in bhusawal"),
      Str("plots in bhusawad"),
      Str("commercial plots in pune"),
      Str("cheapest industrial plots"),
      Str("plots in pune"),
      Str("give me plots in bhusaval"),
      Str("plots in RO jalgaon"),
      Str("industrial plots in jalgaon"),
      Str("residential plots in mumbai"),
      Str("plots in talegaon"),
      Str("plots in rajiv gandhi infotech park"),
      Str("plots in thane"),
      Str("pune talegaon"),
      Str("expensive land"),
      Str("compare price"),
      Str("big office"),
      Str("largest"),
      Str("versus"),
      Str("talegaon"),
      Str("kimi"),
      Str("punya"),
      Str("puna"),
      Str("plots in puna"),
      Str("Puna"),
      Str("PUNE"),
      Str("puneee"),
      Str("bombay"),
      Str("jalgon"),
      Str("hello"),
      Str("xyz  qq"),
      Str(" hello"),
      Str("hello "),
      Str("q   q q"),
      Str("pro p"),
      Str("ro xyz"),
      Str("ro pune"),
      Str("ro"),
      Str("Bhusawal"),
      Str("plots in Bhusawal"),
      Str("kashmir"),
      Str("Hello World"),
      Str("Talegaon"),
      Str("office"),
      Str("kendr"),
      Str("show available plots"),
      Str("show cheapest plots in pune"),
      Str("compare cheap commercial plots in pune talegaon"),
      Str("x"),
      <<>>,
      Str(" "),
      Str("   "),
      <<120, 9, 121>>,
      <<120, 10>>,
      PlotDevanagari,
      Str("xyz ") \o PuneDevanagari,
      PuneDevanagari \o Str("  ") \o PlotDevanagari }

Queries == Examples \cup Generated

----------------------------------------------------------------------------
(* The state machine: one handler instance and its caller.  A call is       *)
(* made with a query (pc "called"), the method runs as one step (pc         *)
(* "returned"), and the caller takes the result (pc "idle").                *)

NoLocals == improve_query(SmartQueryHandler, <<>>)

Idle ==
    [ pc |-> "idle", op |-> "none", query |-> <<>>, from_output |-> FALSE,
      origin |-> <<>>, raised |-> FALSE, improved_query |-> <<>>,
      marathi |-> FALSE, locals |-> NoLocals ]

\* The invocations of improve_query that run in different threads.
Invocations == {"A", "B"}

\* An invocation that has not been made.
Waiting ==
    [ pc |-> "idle", query |-> <<>>, mixed_query |-> <<>>, flag |-> FALSE,
      raised |-> FALSE, improved_query |-> <<>> ]

NoInvocation == [t \in Invocations |-> Waiting]

\* query has returned nothing yet.
NoResult ==
    [ answer |-> "", sources |-> <<>>, confidence |-> 0, chat_history |-> <<>>,
      is_greeting |-> FALSE ]

\* No HTTP response has been made yet.
NoResponse == [ status |-> 0, detail |-> "", cause |-> "", body |-> NoResult ]

\* The chat service with no request in progress and an empty conversation
\* memory (langchain_final_rag.py lines 57-60).  memory is
\* self.memory.chat_memory.messages of the one LangChainFinalRAG instance.
ServiceStart ==
    [ pc |-> "idle", client |-> "none", message |-> <<>>, queried |-> FALSE,
      improved_query |-> <<>>, search |-> "none", matches |-> <<>>,
      sources |-> <<>>, history |-> <<>>, generation |-> "none", answer |-> "",
      result |-> NoResult, response |-> NoResponse, memory |-> <<>> ]

\* scrape_midc_land_bank is not running.  max_pages 0 stands for None (and
\* for 0, which line 117 treats alike); total is len(all_plots_data);
\* requests counts the calls of requests.get (line 53); message is the
\* reason the loop printed for leaving.
ScraperStart ==
    [ pc |-> "idle", max_pages |-> 0, page |-> 0, total |-> 0, requests |-> 0,
      message |-> "none" ]

\* The state outside the handler and its caller: the invocations that share
\* the handler, the chat service and the scraper.
others == <<threads, service, scraper>>

Init ==
    /\ handler = SmartQueryHandler
    /\ call = Idle
    /\ threads = NoInvocation
    /\ service = ServiceStart
    /\ scraper = ScraperStart

\* LangChainFinalRAG._improve_query passes a query to improve_query.
CallImproveQuery(q) ==
    /\ call.pc = "idle"
    /\ call' = [Idle EXCEPT !.pc = "called", !.op = "improve_query",
                            !.query = q, !.origin = q]
    /\ UNCHANGED handler
    /\ UNCHANGED others

\* A caller passes a query to should_respond_in_marathi.
CallShouldRespond(q) ==
    /\ call.pc = "idle"
    /\ call' = [Idle EXCEPT !.pc = "called", !.op = "should_respond_in_marathi",
                            !.query = q, !.origin = q]
    /\ UNCHANGED handler
    /\ UNCHANGED others

\* The body of improve_query, with the assignment of line 463.
ImproveQuery ==
    /\ call.pc = "called"
    /\ call.op = "improve_query"
    /\ LET r == improve_query(handler, call.query)
       IN  IF r.raised
           THEN /\ call' = [call EXCEPT !.pc = "returned", !.raised = TRUE]
                /\ UNCHANGED handler
           ELSE /\ call' = [call EXCEPT !.pc = "returned",
                                        !.improved_query = r.improved_query,
                                        !.locals = r]
                /\ handler' = [handler EXCEPT
                                 !.has_last_query_was_transliteration = TRUE,
                                 !.last_query_was_transliteration = r.flag]
    /\ UNCHANGED others

\* The body of should_respond_in_marathi.
ShouldRespondInMarathi ==
    /\ call.pc = "called"
    /\ call.op = "should_respond_in_marathi"
    /\ call' = [call EXCEPT !.pc = "returned",
                            !.marathi = should_respond_in_marathi(handler, call.query)]
    /\ UNCHANGED handler
    /\ UNCHANGED others

\* The caller takes the result.
Return ==
    /\ call.pc = "returned"
    /\ call' = Idle
    /\ UNCHANGED handler
    /\ UNCHANGED others

\* The caller passes the rewritten query to improve_query again.
Rerun ==
    /\ call.pc = "returned"
    /\ call.op = "improve_query"
    /\ ~call.raised
    /\ Len(call.improved_query) <= MaxRerunLen
    /\ call' = [Idle EXCEPT !.pc = "called", !.op = "improve_query",
                            !.query = call.improved_query,
                            !.from_output = TRUE, !.origin = call.origin]
    /\ UNCHANGED handler
    /\ UNCHANGED others

Next ==
    \/ \E q \in Queries : CallImproveQuery(q)
    \/ \E q \in Queries : CallShouldRespond(q)
    \/ ImproveQuery
    \/ ShouldRespondInMarathi
    \/ Return
    \/ Rerun

Spec == Init /\ [][Next]_vars

----------------------------------------------------------------------------
(* Two invocations of improve_query on the one handler of the service      *)
(* (main.py line 28, langchain_final_rag.py line 33), each in its own      *)
(* thread.  An invocation is made (pc "called"), runs lines 359-363 with   *)
(* the assignment of line 463 (pc "normalized"), runs lines 366-427 (pc    *)
(* "returned") and hands its result to its caller (pc "idle").  The steps  *)
(* of the two invocations interleave freely.                               *)

\* The queries the two invocations are made with.
RaceQueries == { Str("pune"), Str("aahet"), Str("plots madhe") }

\* A thread calls improve_query(q).
ThreadCall(t, q) ==
    /\ threads[t].pc = "idle"
    /\ threads' = [threads EXCEPT ![t] = [Waiting EXCEPT !.pc = "called", !.query = q]]
    /\ UNCHANGED <<handler, call, service, scraper>>

\* Faulty variant of ThreadNormalize: a flag that is already set is kept.
ThreadNormalizeKeepsFlag(t) ==
    /\ threads[t].pc = "called"
    /\ LET mixed == _handle_mixed_language(handler, threads[t].query)
       IN  IF mixed.raised
           THEN /\ threads' = [threads EXCEPT ![t].pc = "returned", ![t].raised = TRUE]
                /\ UNCHANGED handler
           ELSE /\ threads' = [threads EXCEPT ![t].pc = "normalized",
                                              ![t].mixed_query = mixed.value,
                                              ![t].flag = mixed.flag]
                /\ handler' = [handler EXCEPT
                                 !.has_last_query_was_transliteration = TRUE,
                                 !.last_query_was_transliteration =
                                     IF handler.has_last_query_was_transliteration
                                     THEN handler.last_query_was_transliteration
                                     ELSE mixed.flag]
    /\ UNCHANGED <<call, service, scraper>>

\* Lines 359-363 and 429-465: the concepts are extracted, the query is
\* normalized and line 463 stores the flag of this query in the handler.
ThreadNormalize(t) ==
    /\ threads[t].pc = "called"
    /\ LET mixed == _handle_mixed_language(handler, threads[t].query)
       IN  IF mixed.raised
           THEN /\ threads' = [threads EXCEPT ![t].pc = "returned", ![t].raised = TRUE]
                /\ UNCHANGED handler
           ELSE /\ threads' = [threads EXCEPT ![t].pc = "normalized",
                                              ![t].mixed_query = mixed.value,
                                              ![t].flag = mixed.flag]
                /\ handler' = [handler EXCEPT
                                 !.has_last_query_was_transliteration = TRUE,
                                 !.last_query_was_transliteration = mixed.flag]
    /\ UNCHANGED <<call, service, scraper>>

\* Lines 366-427: correction and augmentation.  They read the locals of the
\* invocation and the tables of the handler as they are now, never the flag.
ThreadAugment(t) ==
    /\ threads[t].pc = "normalized"
    /\ LET r == improve_query(handler, threads[t].query)
       IN  threads' = [threads EXCEPT ![t].pc = "returned",
                                      ![t].raised = r.raised,
                                      ![t].improved_query =
                                          Combine(_handle_spelling_mistakes(handler, threads[t].mixed_query),
                                                  r.improvements)]
    /\ UNCHANGED <<handler, call, service, scraper>>

\* The caller takes the result.
ThreadReturn(t) ==
    /\ threads[t].pc = "returned"
    /\ threads' = [threads EXCEPT ![t] = Waiting]
    /\ UNCHANGED <<handler, call, service, scraper>>

NextRace ==
    \/ \E t \in Invocations : \E q \in RaceQueries : ThreadCall(t, q)
    \/ \E t \in Invocations : ThreadNormalize(t)
    \/ \E t \in Invocations : ThreadAugment(t)
    \/ \E t \in Invocations : ThreadReturn(t)

SpecRace == Init /\ [][NextRace]_vars

----------------------------------------------------------------------------
(* The chat service: POST /api/chat (main.py lines 56-73) on the one       *)
(* LangChainFinalRAG instance (main.py line 28) and its query method       *)
(* (langchain_final_rag.py lines 117-293).  chat is a coroutine that calls *)
(* query without awaiting, so the requests are handled one after the       *)
(* other; a request passes through the steps below.  Scores and            *)
(* confidences are in hundredths.                                          *)

Clients == {"c1", "c2"}

\* The questions each client asks; no question is asked by both.
OwnQuestions(c) ==
    IF c = "c1" THEN { Str("plots in pune") } ELSE { Str("rates in nagpur") }

\* The messages a client posts: its questions, a greeting, and a message of
\* white space only.
ClientMessages(c) == OwnQuestions(c) \cup { Str("hello"), Str("   ") }

\* The most exchanges the memory holds before it is cleared.
MaxExchanges == 2

\* The most matches the similarity search returns (top_k, scaled down).
MaxMatches == 3

\* The score at which a match is kept (line 137: 0.3).
SimilarityThreshold == 30

\* The matches of the index: has_text says whether one of the metadata
\* fields of lines 143-163 is filled.
MatchPool ==
    { [id |-> 1, score |-> 85, has_text |-> TRUE],
      [id |-> 2, score |-> 30, has_text |-> TRUE],
      [id |-> 3, score |-> 29, has_text |-> TRUE],
      [id |-> 4, score |-> 90, has_text |-> FALSE] }

\* What pinecone_index.query can return: up to MaxMatches different matches
\* in any order.
MatchLists ==
    { s \in UNION { [1..n -> MatchPool] : n \in 0..MaxMatches } :
          \A i, j \in 1..Len(s) : i # j => s[i] # s[j] }

\* Faulty variant of KeepMatch: the score is not tested.
KeepMatchWithText(match) == match.has_text

\* Lines 137 and 166: a match is kept when its score reaches the threshold
\* and a text could be built from its metadata.
KeepMatch(match) == match.score >= SimilarityThreshold /\ match.has_text

\* Lines 134-176: the loop over search_results.matches.
RECURSIVE Results(_)
Results(matches) ==
    IF Len(matches) = 0 THEN <<>>
    ELSE (IF KeepMatch(Head(matches))
          THEN << [id |-> Head(matches).id, score |-> Head(matches).score] >>
          ELSE <<>>)
         \o Results(Tail(matches))

\* str.lstrip()
RECURSIVE LStrip(_)
LStrip(s) == IF Len(s) > 0 /\ IsSpace(s[1]) THEN LStrip(Tail(s)) ELSE s

\* str.rstrip()
RECURSIVE RStrip(_)
RStrip(s) ==
    IF Len(s) > 0 /\ IsSpace(s[Len(s)]) THEN RStrip(SubSeq(s, 1, Len(s) - 1)) ELSE s

\* str.strip()
Strip(s) == RStrip(LStrip(s))

\* s.split(sub, 1)[1] for sub in s: the text after the first occurrence.
AfterFirst(s, sub) ==
    LET first == CHOOSE i \in 1..Len(s) :
                     /\ StartsAt(s, i, sub)
                     /\ \A j \in 1..(i - 1) : ~StartsAt(s, j, sub)
    IN  SubSeq(s, first + Len(sub), Len(s))

\* Line 185.
greetings ==
    << Str("hey"), Str("hello"), Str("hi"), Str("good morning"),
       Str("good afternoon"), Str("good evening") >>

\* Line 186; 39 is the apostrophe.
casual_questions ==
    << Str("how are you"), Str("how are you doing"),
       Str("what") \o <<39>> \o Str("s up"), Str("how do you do") >>

\* _is_greeting (lines 182-202): only the first greeting of the list that
\* occurs in the query is looked at.
_is_greeting(query) ==
    LET query_lower == Strip(Lower(query))
        found == { i \in 1..Len(greetings) : IsIn(greetings[i], query_lower) }
        greeting == greetings[CHOOSE i \in found : \A j \in found : i <= j]
        after_greeting ==
            Strip(Replace(Replace(Replace(Strip(AfterFirst(query_lower, greeting)),
                                          <<44>>, <<>>), <<46>>, <<>>), <<33>>, <<>>))
    IN  \/ found # {} /\ Len(after_greeting) < 3
        \/ \E i \in 1..Len(casual_questions) : IsIn(casual_questions[i], query_lower)

\* _handle_greeting (line 206); the text is abridged.
_handle_greeting == "Hi there! I am your friendly MIDC Land Bank AI Assistant"

\* The answer of lines 271-277.
ApologyAnswer ==
    "I apologize, but I encountered an error while processing your question. Please try again."

\* The texts the language model generates.
GeneratedTexts == { "Plots are available in the MIDC industrial areas." }

\* _calculate_confidence (lines 279-293).
_calculate_confidence(source_documents) ==
    IF Len(source_documents) = 0 THEN 30
    ELSE IF Len(source_documents) >= 5 THEN 90
    ELSE IF Len(source_documents) >= 3 THEN 70
    ELSE IF Len(source_documents) >= 1 THEN 50
    ELSE 30

\* chat_history[-4:] (line 234).
LastFour(messages) ==
    IF Len(messages) <= 4 THEN messages
    ELSE SubSeq(messages, Len(messages) - 3, Len(messages))

\* A client posts a message to /api/chat (main.py line 57).
Receive(c, m) ==
    /\ service.pc = "idle"
    /\ Len(service.memory) < 2 * MaxExchanges
    /\ service' = [service EXCEPT !.pc = "chat", !.client = c, !.message = m]
    /\ UNCHANGED <<handler, call, threads, scraper>>

\* main.py lines 59-61 and 72-73: the HTTPException of line 61 is raised
\* inside the try block, and the handler of line 72 catches every
\* Exception, this one too, and raises the one of line 73 with the text of
\* the first as cause.
Validate ==
    /\ service.pc = "chat"
    /\ IF IsBlank(service.message)
       THEN service' = [service EXCEPT
                          !.pc = "responded",
                          !.response = [ status |-> 500,
                                         detail |-> "Error processing chat message: ",
                                         cause |-> "Message cannot be empty",
                                         body |-> NoResult ]]
       ELSE service' = [service EXCEPT !.pc = "query", !.queried = TRUE]
    /\ UNCHANGED <<handler, call, threads, scraper>>

\* Lines 212-219: a greeting is answered at once.
QueryGreeting ==
    /\ service.pc = "query"
    /\ IF _is_greeting(service.message)
       THEN service' = [service EXCEPT
                          !.pc = "returned",
                          !.result = [ answer |-> _handle_greeting, sources |-> <<>>,
                                       confidence |-> 90, chat_history |-> <<>>,
                                       is_greeting |-> TRUE ]]
       ELSE service' = [service EXCEPT !.pc = "search"]
    /\ UNCHANGED <<handler, call, threads, scraper>>

\* Line 121: _semantic_search has the handler rewrite the question.
SearchImprove ==
    /\ service.pc = "search"
    /\ LET r == improve_query(handler, service.message)
       IN  IF r.raised
           THEN /\ service' = [service EXCEPT !.pc = "searched", !.search = "raised"]
                /\ UNCHANGED handler
           ELSE /\ service' = [service EXCEPT !.pc = "improved",
                                              !.improved_query = r.improved_query]
                /\ handler' = [handler EXCEPT
                                 !.has_last_query_was_transliteration = TRUE,
                                 !.last_query_was_transliteration = r.flag]
    /\ UNCHANGED <<call, threads, scraper>>

\* Lines 124-180: the embedding and the search either raise, and the
\* handler of line 178 returns the empty list, or return matches, of which
\* the loop keeps some.
SearchPinecone(raises, matches) ==
    /\ service.pc = "improved"
    /\ IF raises
       THEN service' = [service EXCEPT !.pc = "searched", !.search = "raised"]
       ELSE service' = [service EXCEPT !.pc = "searched", !.search = "ok",
                                       !.matches = matches,
                                       !.sources = Results(matches)]
    /\ UNCHANGED <<handler, call, threads, scraper>>

\* Lines 224-248: the context, the last four messages of the memory and the
\* question make the prompt.
BuildPrompt ==
    /\ service.pc = "searched"
    /\ service' = [service EXCEPT !.pc = "prompted", !.matches = <<>>,
                                  !.history = LastFour(service.memory)]
    /\ UNCHANGED <<handler, call, threads, scraper>>

\* Lines 251-252 and 269-277: the model generates an answer, or raises and
\* query returns the apology.
Generate(raises, text) ==
    /\ service.pc = "prompted"
    /\ IF raises
       THEN service' = [service EXCEPT
                          !.pc = "returned", !.generation = "raised",
                          !.result = [ answer |-> ApologyAnswer, sources |-> <<>>,
                                       confidence |-> 0, chat_history |-> <<>>,
                                       is_greeting |-> FALSE ]]
       ELSE service' = [service EXCEPT !.pc = "generated", !.generation = "ok",
                                       !.answer = text]
    /\ UNCHANGED <<handler, call, threads, scraper>>

\* Faulty variant of SaveMemory: the answer is stored before the question.
SaveMemoryAnswerFirst ==
    /\ service.pc = "generated"
    /\ service' = [service EXCEPT
                     !.pc = "returned",
                     !.memory = service.memory
                                    \o << [type |-> "ai", content |-> service.answer],
                                          [type |-> "human", content |-> service.message] >>,
                     !.result = [ answer |-> service.answer,
                                  sources |-> service.sources,
                                  confidence |-> _calculate_confidence(service.sources),
                                  chat_history |-> << service.message, service.answer >>,
                                  is_greeting |-> FALSE ]]
    /\ UNCHANGED <<handler, call, threads, scraper>>

\* Lines 255-267: the question and the answer are added to the memory and
\* the result is returned.
SaveMemory ==
    /\ service.pc = "generated"
    /\ service' = [service EXCEPT
                     !.pc = "returned",
                     !.memory = service.memory
                                    \o << [type |-> "human", content |-> service.message],
                                          [type |-> "ai", content |-> service.answer] >>,
                     !.result = [ answer |-> service.answer,
                                  sources |-> service.sources,
                                  confidence |-> _calculate_confidence(service.sources),
                                  chat_history |-> << service.message, service.answer >>,
                                  is_greeting |-> FALSE ]]
    /\ UNCHANGED <<handler, call, threads, scraper>>

\* main.py lines 66-70: the result becomes the response.
Respond ==
    /\ service.pc = "returned"
    /\ service' = [service EXCEPT
                     !.pc = "responded",
                     !.response = [ status |-> 200, detail |-> "", cause |-> "",
                                    body |-> service.result ]]
    /\ UNCHANGED <<handler, call, threads, scraper>>

\* The response is sent and the next request can be handled.
Deliver ==
    /\ service.pc = "responded"
    /\ service' = [ServiceStart EXCEPT !.memory = service.memory]
    /\ UNCHANGED <<handler, call, threads, scraper>>

\* POST /api/clear-memory (main.py lines 105-112, clear_memory lines 295-299).
ClearMemory ==
    /\ service.pc = "idle"
    /\ service.memory # <<>>
    /\ service' = [service EXCEPT !.memory = <<>>]
    /\ UNCHANGED <<handler, call, threads, scraper>>

NextService ==
    \/ \E c \in Clients : \E m \in ClientMessages(c) : Receive(c, m)
    \/ Validate
    \/ QueryGreeting
    \/ SearchImprove
    \/ \E raises \in BOOLEAN : \E matches \in MatchLists : SearchPinecone(raises, matches)
    \/ BuildPrompt
    \/ \E raises \in BOOLEAN : \E text \in GeneratedTexts : Generate(raises, text)
    \/ SaveMemory
    \/ Respond
    \/ Deliver
    \/ ClearMemory

SpecService == Init /\ [][NextService]_vars

----------------------------------------------------------------------------
(* scrape_midc_land_bank (tabular_scraper.py lines 8-185): the page loop.  *)

\* The records of a page below which the page counts as the last (line 123).
FullPage == 10

\* The number of records at which the loop stops (line 147).
ExpectedTotal == 1181

\* The largest max_pages a caller passes.
MaxPagesArg == 3

\* The most records the server puts on one page.
MaxRows == 10

\* The page sizes the server answers with: no record, a page one record
\* short of full, and full and larger pages.
RowCounts == {0} \cup ((FullPage - 1)..MaxRows)

\* What one request can yield: an exception of requests.get or
\* raise_for_status, or a page of rows records; first_is_last says whether
\* the first record of the page equals the last one (a page of one record
\* has them equal).
Responses ==
    { [kind |-> "error", rows |-> 0, first_is_last |-> FALSE] }
        \cup { r \in [kind : {"page"}, rows : RowCounts, first_is_last : BOOLEAN] :
                   /\ r.rows = 0 => ~r.first_is_last
                   /\ r.rows = 1 => r.first_is_last }

\* Lines 38-40: the function is called.
ScrapeCall(max_pages) ==
    /\ scraper.pc = "idle"
    /\ scraper' = [ScraperStart EXCEPT !.pc = "loop", !.max_pages = max_pages,
                                       !.page = 1]
    /\ UNCHANGED <<handler, call, threads, service>>

\* The loop has left with the message.
Stopped(s, total, message) ==
    [s EXCEPT !.pc = "done", !.requests = s.requests + 1, !.total = total,
              !.message = message]

\* Faulty variant of ScrapePage: the page limit stops the loop one page
\* late.
ScrapePageLimitLate(r) ==
    /\ scraper.pc = "loop"
    /\ LET total == scraper.total + r.rows
       IN  scraper' =
               IF r.kind = "error" THEN Stopped(scraper, scraper.total, "error")
               ELSE IF r.rows = 0 THEN Stopped(scraper, scraper.total, "no data")
               ELSE IF scraper.max_pages # 0 /\ scraper.page > scraper.max_pages
                    THEN Stopped(scraper, total, "max pages")
               ELSE IF r.rows < FullPage THEN Stopped(scraper, total, "fewer records")
               ELSE IF scraper.page > 1 /\ r.first_is_last
                    THEN Stopped(scraper, total, "duplicate")
               ELSE IF total >= ExpectedTotal THEN Stopped(scraper, total, "expected total")
               ELSE [scraper EXCEPT !.page = scraper.page + 1,
                                    !.requests = scraper.requests + 1,
                                    !.total = total]
    /\ UNCHANGED <<handler, call, threads, service>>

\* One pass of the loop (lines 42-152): the request, the parse, and the
\* exits in the order of the code.  Line 132 reads all_plots_data[-1] after
\* line 113 has appended the page, so it is the last record of this page.
ScrapePage(r) ==
    /\ scraper.pc = "loop"
    /\ LET total == scraper.total + r.rows
       IN  scraper' =
               IF r.kind = "error" THEN Stopped(scraper, scraper.total, "error")
               ELSE IF r.rows = 0 THEN Stopped(scraper, scraper.total, "no data")
               ELSE IF scraper.max_pages # 0 /\ scraper.page >= scraper.max_pages
                    THEN Stopped(scraper, total, "max pages")
               ELSE IF r.rows < FullPage THEN Stopped(scraper, total, "fewer records")
               ELSE IF scraper.page > 1 /\ r.first_is_last
                    THEN Stopped(scraper, total, "duplicate")
               ELSE IF total >= ExpectedTotal THEN Stopped(scraper, total, "expected total")
               ELSE [scraper EXCEPT !.page = scraper.page + 1,
                                    !.requests = scraper.requests + 1,
                                    !.total = total]
    /\ UNCHANGED <<handler, call, threads, service>>

\* Lines 154-185: the function returns its data frame.
ScrapeReturn ==
    /\ scraper.pc = "done"
    /\ scraper' = ScraperStart
    /\ UNCHANGED <<handler, call, threads, service>>

NextScraper ==
    \/ \E max_pages \in 0..MaxPagesArg : ScrapeCall(max_pages)
    \/ \E r \in Responses : ScrapePage(r)
    \/ ScrapeReturn

\* The loop is sequential code: while it runs, its next pass is taken (a
\* request ends with a response or with an exception).
SpecScraper ==
    Init /\ [][NextScraper]_vars /\ WF_vars(\E r \in Responses : ScrapePage(r))

----------------------------------------------------------------------------
(* Vocabulary of the properties below.                                     *)

\* improve_query has returned a value for call.query.
Rewritten ==
    /\ call.pc = "returned"
    /\ call.op = "improve_query"
    /\ ~call.raised

\* should_respond_in_marathi has returned call.marathi for call.query.
Classified ==
    /\ call.pc = "returned"
    /\ call.op = "should_respond_in_marathi"

Range(seq) == { seq[i] : i \in 1..Len(seq) }

TransliterationKeys ==
    { marathi_transliteration_tokens[i][1] : i \in 1..Len(marathi_transliteration_tokens) }

MixedLanguageKeys ==
    { mixed_language_mappings[i][1] : i \in 1..Len(mixed_language_mappings) }

SynonymForms ==
    UNION { Range(semantic_synonyms[i][2]) : i \in 1..Len(semantic_synonyms) }

ConceptRoots ==
    Range(LocationRoots) \cup Range(PropertyRoots) \cup Range(PriceRoots)
        \cup Range(AvailabilityRoots)

ConceptSynonyms ==
    UNION { Range(semantic_synonyms[i][2]) :
                i \in { j \in 1..Len(semantic_synonyms) : semantic_synonyms[j][1] \in ConceptRoots } }

IntentTriggers ==
    UNION { Range(intent_patterns[i][2]) : i \in 1..Len(intent_patterns) }

LocationKeys ==
    { region_mappings[i][1] : i \in 1..Len(region_mappings) }
        \cup { area_to_ro_mappings[i][1] : i \in 1..Len(area_to_ro_mappings) }

Misspellings ==
    UNION { { v \in Range(spelling_variations[i][2]) : v # spelling_variations[i][1] } :
                i \in 1..Len(spelling_variations) }

\* No entry of any table matches the query: no token is a transliteration,
\* synonym or mixed-language form, and no misspelling, location key, concept
\* synonym or intent trigger occurs in it.
NoTableMatch(q) ==
    LET ql == Lower(q)
    IN  /\ \A t \in Range(Split(q)) :
              Lower(t) \notin (TransliterationKeys \cup SynonymForms \cup MixedLanguageKeys)
        /\ \A v \in Misspellings : ~IsIn(v, ql)
        /\ \A k \in LocationKeys : ~IsIn(k, ql)
        /\ \A s \in ConceptSynonyms : ~IsIn(s, ql)
        /\ \A p \in IntentTriggers : ~IsIn(p, ql)

\* No word following "ro" in the query occurs in the name of an office.
NoOfficeMention(q) ==
    \A w \in Range(FindallRo(Lower(q), 1)) :
        \A i \in 1..Len(region_mappings) : ~IsIn(w, Lower(region_mappings[i][2]))

\* The tokens are separated by exactly one space each, with no white space
\* before the first or after the last.
SingleSpaced(q) ==
    /\ \A i \in 1..Len(q) : IsSpace(q[i]) => q[i] = 32
    /\ \A i \in 1..(Len(q) - 1) : ~(q[i] = 32 /\ q[i + 1] = 32)
    /\ Len(q) > 0 => (q[1] # 32 /\ q[Len(q)] # 32)

HasDevanagariChar(q) == \E i \in 1..Len(q) : q[i] \in 2304..2431

\* The TransliterationMap keys that occur in the lower-cased query.
KeysOccurring(q) == { k \in TransliterationKeys : IsIn(k, Lower(q)) }

\* The office identifiers ("RO" and a name) a RegionMap value lists.
OfficesOf(value) ==
    LET t == Split(value)
    IN  { t[i] \o <<32>> \o t[i + 1] : i \in { j \in 1..(Len(t) - 1) : t[j] = Str("RO") } }

\* The office identifiers among the phrases of a list.
OfficesIn(phrases) == UNION { OfficesOf(phrases[i]) : i \in 1..Len(phrases) }

Q_plots_available_in_pune == Str("plots available in pune")

Q_plots_madhe_aahet_ka == Str("plots madhe aahet ka")

Q_plots_in_bhusawad == Str("plots in bhusawad")

Q_commercial_plots_in_pune == Str("commercial plots in pune")

Q_cheapest_industrial_plots == Str("cheapest industrial plots")

Q_plots_in_pune == Str("plots in pune")

MidcAnchor == Str("MIDC Industrial Area")

----------------------------------------------------------------------------
(* C1                                                                      *)

----------------------------------------------------------------------------
(* C2                                                                      *)

\* C2: should_respond_in_marathi("plots available in pune") is false.
C2_EnglishQueryIsNotMarathi ==
    (Classified /\ call.query = Q_plots_available_in_pune) => call.marathi = FALSE

----------------------------------------------------------------------------
(* C3                                                                      *)

\* C3: for every query that holds a character of U+0900..U+097F,
\* should_respond_in_marathi returns true.
C3_DevanagariIsMarathi ==
    (Classified /\ HasDevanagariChar(call.query)) => call.marathi = TRUE

\* A query with a Devanagari word after an unmatched Latin word, in which
\* fewer than two transliteration keys occur, has been classified.
C3_Witness ==
    /\ Classified
    /\ call.query = Str("xyz ") \o PuneDevanagari
    /\ Cardinality(KeysOccurring(call.query)) < 2
    /\ call.marathi = TRUE

----------------------------------------------------------------------------
(* C4                                                                      *)

\* C4: for every query without Devanagari characters in which at least two
\* distinct TransliterationMap keys occur as substrings of the lower-cased
\* query, should_respond_in_marathi returns true; "plots madhe aahet ka" is
\* such a query.
C4_TwoKeysIsMarathi ==
    /\ (Classified /\ ~HasDevanagariChar(call.query)
            /\ Cardinality(KeysOccurring(call.query)) >= 2) => call.marathi = TRUE
    /\ (Classified /\ call.query = Q_plots_madhe_aahet_ka) =>
            /\ ~HasDevanagariChar(call.query)
            /\ Cardinality(KeysOccurring(call.query)) >= 2
            /\ call.marathi = TRUE

\* "plots madhe aahet ka" has been classified.
C4_Witness ==
    /\ Classified
    /\ call.query = Q_plots_madhe_aahet_ka
    /\ { Str("madhe"), Str("aahet"), Str("ka") } \subseteq KeysOccurring(call.query)
    /\ call.marathi = TRUE

----------------------------------------------------------------------------
(* C5                                                                      *)

\* C5: for "plots in bhusawal" and "plots in bhusawad", improve_query
\* returns a string in which the misspelling is replaced by "bhusaval" and
\* which contains "RO Jalgaon", "Industrial" and "MIDC Industrial Area".
C5_BhusavalMisspellings ==
    \A v \in { Str("bhusawal"), Str("bhusawad") } :
        (Rewritten /\ call.query = Str("plots in ") \o v) =>
            /\ call.locals.corrected_query = Str("plots in bhusaval")
            /\ ~IsIn(v, call.improved_query)
            /\ StartsAt(call.improved_query, 1, Str("plots in bhusaval "))
            /\ InList(Str("RO Jalgaon"), call.locals.improvements)
            /\ InList(Str("Industrial"), call.locals.improvements)
            /\ InList(MidcAnchor, call.locals.improvements)
            /\ IsIn(Str(" RO Jalgaon "), call.improved_query)
            /\ IsIn(Str(" Industrial "), call.improved_query)
            /\ IsIn(MidcAnchor, call.improved_query)

\* "plots in bhusawad" has been rewritten.
C5_Witness ==
    /\ Rewritten
    /\ call.query = Q_plots_in_bhusawad
    /\ call.improved_query = Str("plots in bhusaval RO Jalgaon Industrial MIDC Industrial Area")

----------------------------------------------------------------------------
(* C6                                                                      *)

\* C6: for "commercial plots in pune", improve_query appends, after the
\* corrected query, the identifiers of both Pune offices, the category
\* "Commercial" and the anchor; and for every query, every office of every
\* RegionMap city that occurs in the corrected query is among the appended
\* office identifiers.
C6_EveryOfficeOfACity ==
    /\ (Rewritten /\ call.query = Q_commercial_plots_in_pune) =>
            /\ call.improved_query =
                   call.locals.corrected_query \o <<32>>
                       \o Join(<<32>>, call.locals.improvements)
            /\ { Str("RO PUNE-I"), Str("RO PUNE-II") }
                   \subseteq OfficesIn(call.locals.improvements)
            /\ InList(Str("Commercial"), call.locals.improvements)
            /\ call.locals.improvements[Len(call.locals.improvements)] = MidcAnchor
    /\ Rewritten =>
            \A i \in 1..Len(region_mappings) :
                IsIn(region_mappings[i][1], Lower(call.locals.corrected_query)) =>
                    OfficesOf(region_mappings[i][2]) \subseteq OfficesIn(call.locals.improvements)

\* "commercial plots in pune" has been rewritten.
C6_Witness ==
    /\ Rewritten
    /\ call.query = Q_commercial_plots_in_pune
    /\ Cardinality(OfficesIn(call.locals.offices)) = 2

----------------------------------------------------------------------------
(* C7                                                                      *)

\* The phrase the claim gives for a price root.
C7_PricePhrase(root) ==
    CASE root = Str("cheap") -> Str("low cost affordable budget")
      [] root = Str("expensive") -> Str("high cost premium")
      [] root = Str("price") -> Str("price rate cost")

\* The phrases the claim gives for an intent: one or none.
C7_IntentPhrase(intent) ==
    CASE intent = Str("cheapest") -> <<Str("minimum lowest affordable")>>
      [] intent = Str("largest") -> <<Str("maximum biggest")>>
      [] intent = Str("comparison") -> <<Str("compare different options")>>
      [] OTHER -> <<>>

RECURSIVE C7_IntentPhrases(_)
C7_IntentPhrases(intents) ==
    IF Len(intents) = 0 THEN <<>>
    ELSE C7_IntentPhrase(Head(intents)) \o C7_IntentPhrases(Tail(intents))

\* C7: the phrases appended for the detected concepts follow the fixed
\* mapping (property root -> its PropertyTypeMap label, price root and
\* intent -> their phrase, any other intent -> nothing), and for
\* "cheapest industrial plots" the improvements include "minimum lowest
\* affordable" and "Industrial".
C7_PhraseMapping ==
    /\ Rewritten =>
         LET c == call.locals.concepts
             imp == call.locals.improvements
         IN  /\ call.locals.property_labels =
                    [i \in 1..Len(c.property_types) |->
                        GetItem(property_mappings, c.property_types[i])]
             /\ call.locals.price_phrases =
                    [i \in 1..Len(c.price_related) |-> C7_PricePhrase(c.price_related[i])]
             /\ call.locals.intent_phrases = C7_IntentPhrases(c.intents)
             /\ \A p \in Range(call.locals.property_labels)
                        \cup Range(call.locals.price_phrases)
                        \cup Range(call.locals.intent_phrases) : InList(p, imp)
    /\ (Rewritten /\ call.query = Q_cheapest_industrial_plots) =>
         /\ InList(Str("cheapest"), call.locals.concepts.intents)
         /\ InList(Str("minimum lowest affordable"), call.locals.improvements)
         /\ InList(Str("Industrial"), call.locals.improvements)

\* "cheapest industrial plots" has been rewritten.
C7_Witness ==
    /\ Rewritten
    /\ call.query = Q_cheapest_industrial_plots
    /\ call.locals.intent_phrases = <<Str("minimum lowest affordable")>>
    /\ call.locals.price_phrases = <<Str("low cost affordable budget")>>

----------------------------------------------------------------------------
(* C8                                                                      *)

\* C8: improve_query and should_respond_in_marathi return a value and raise
\* no error for any query, the empty and the blank query included.
C8_NeverRaises ==
    call.pc = "returned" =>
        /\ ~call.raised
        /\ call.op = "improve_query" =>
               /\ ~InList(KeyError, call.locals.improvements)
               /\ IsBlank(call.query) => call.improved_query = <<>>
        /\ call.op = "should_respond_in_marathi" => call.marathi \in BOOLEAN

\* A blank query has been rewritten.
C8_Witness ==
    /\ Rewritten
    /\ call.query = Str("   ")
    /\ call.improved_query = <<>>

----------------------------------------------------------------------------
(* C9                                                                      *)

\* C9: improve_query is not idempotent: applied to its own output for
\* "plots in pune" it returns a different string, because it appends
\* phrases again; and so it does for every output that holds the anchor.
C9_SecondPassAppendsAgain ==
    (Rewritten /\ call.from_output
        /\ (call.origin = Q_plots_in_pune \/ IsIn(MidcAnchor, call.query))) =>
        /\ call.improved_query # call.query
        /\ Len(call.locals.improvements) > 0
        /\ Len(call.improved_query) > Len(call.query)

\* The output for "plots in pune" has been rewritten again.
C9_Witness ==
    /\ Rewritten
    /\ call.from_output
    /\ call.origin = Q_plots_in_pune
    /\ call.query = Str("plots in pune RO PUNE-I RO PUNE-II Industrial MIDC Industrial Area")
    /\ call.improved_query # call.query

----------------------------------------------------------------------------
(* C10                                                                     *)

\* One of the tokens of the query, lower-cased, is a TransliterationMap key.
SomeTokenIsTransliteration(q) ==
    \E t \in Range(Split(q)) : Lower(t) \in TransliterationKeys

\* C10: the tables always equal their value at construction; a call of
\* improve_query changes the transliteration flag only, to whether a token
\* of its query, lower-cased, is a TransliterationMap key; a call of
\* should_respond_in_marathi changes nothing; and what either returns is
\* what a freshly constructed handler returns for the same query.
C10_Frame ==
    /\ [](Tables(handler) = Tables(SmartQueryHandler))
    /\ [][ (call.pc = "called" /\ call'.pc = "returned") =>
             /\ Tables(handler') = Tables(handler)
             /\ call.op = "improve_query" =>
                   /\ handler'.has_last_query_was_transliteration
                   /\ handler'.last_query_was_transliteration
                          = SomeTokenIsTransliteration(call.query)
                   /\ call'.improved_query
                          = improve_query(SmartQueryHandler, call.query).improved_query
             /\ call.op = "should_respond_in_marathi" =>
                   /\ handler' = handler
                   /\ call'.marathi = should_respond_in_marathi(SmartQueryHandler, call.query)
          ]_vars
    /\ [][ call'.pc # "returned" => handler' = handler ]_vars

\* An English query has been classified by a handler whose flag an earlier
\* improve_query call had set to true.
C10_Witness ==
    /\ Classified
    /\ call.query = Str("hello")
    /\ call.marathi = FALSE
    /\ handler.has_last_query_was_transliteration
    /\ handler.last_query_was_transliteration = TRUE

----------------------------------------------------------------------------
(* C11                                                                     *)

\* No two entries of the list are the same string.
NoDuplicates(seq) == \A i, j \in 1..Len(seq) : i # j => seq[i] # seq[j]

\* C11: for every query, the improvements list improve_query builds holds
\* no phrase twice.
C11_ImprovementsAreDistinct ==
    Rewritten => NoDuplicates(call.locals.improvements)

----------------------------------------------------------------------------
(* C12                                                                     *)

Q_compare_cheap_commercial == Str("compare cheap commercial plots in pune talegaon")

\* The intents that append a phrase.
PhraseIntents == { Str("cheapest"), Str("largest"), Str("comparison") }

\* C12 as stated: each of the six steps adds at most one phrase, so the
\* improvements list never has more than six entries.
C12_OnePhrasePerStep ==
    Rewritten =>
        /\ Len(call.locals.offices) <= 1
        /\ Len(call.locals.property_labels) <= 1
        /\ Len(call.locals.price_phrases) <= 1
        /\ Len(call.locals.availability_phrases) <= 1
        /\ Len(call.locals.intent_phrases) <= 1
        /\ Len(call.locals.anchor_phrases) <= 1
        /\ Len(call.locals.improvements) <= 6

\* C12, amended: a step adds at most one phrase per item it handles:
\* location resolution at most one per location hit, the property step one
\* per detected property root (at most four), the price step one per
\* detected price root (at most three), the intent step one per detected
\* cheapest, largest or comparison intent (at most three), and the
\* availability and anchor steps at most one each; the list is the
\* concatenation of what the steps add, and it can have more than six
\* entries.
C12_OnePhrasePerDetectedItem ==
    Rewritten =>
        LET l == call.locals
            c == l.concepts
        IN  /\ Len(l.offices) <= Len(l.locations)
            /\ Len(l.property_labels) = Len(c.property_types)
            /\ Len(c.property_types) <= Len(PropertyRoots)
            /\ Len(l.price_phrases) = Len(c.price_related)
            /\ Len(c.price_related) <= Len(PriceRoots)
            /\ Len(l.availability_phrases) <= 1
            /\ Len(l.intent_phrases)
                   = Cardinality({ i \in 1..Len(c.intents) : c.intents[i] \in PhraseIntents })
            /\ Len(l.intent_phrases) <= Cardinality(PhraseIntents)
            /\ Len(l.anchor_phrases) <= 1
            /\ Len(l.improvements)
                   = Len(l.offices) + Len(l.property_labels) + Len(l.price_phrases)
                       + Len(l.availability_phrases) + Len(l.intent_phrases)
                       + Len(l.anchor_phrases)

\* A query with two location hits, two property roots, one price root and
\* two phrase intents has been rewritten: eight phrases are appended.
C12_Witness ==
    /\ Rewritten
    /\ call.query = Q_compare_cheap_commercial
    /\ Len(call.locals.offices) = 2
    /\ Len(call.locals.property_labels) = 2
    /\ Len(call.locals.intent_phrases) = 2
    /\ Len(call.locals.improvements) = 8

----------------------------------------------------------------------------
(* C13                                                                     *)

Q_pune_talegaon == Str("pune talegaon")

\* How many times an office identifier is listed by the phrases of a list.
OfficeCount(id, phrases) ==
    Cardinality(UNION { { <<i, j>> : j \in { k \in 1..(Len(Split(phrases[i])) - 1) :
                                        LET t == Split(phrases[i])
                                        IN  /\ t[k] = Str("RO")
                                            /\ t[k] \o <<32>> \o t[k + 1] = id } } :
                        i \in 1..Len(phrases) })

\* C13 as stated: location resolution appends each office identifier at
\* most once, also when several hits reach the same office.
C13_EachOfficeOnce ==
    Rewritten =>
        \A id \in OfficesIn(call.locals.offices) :
            OfficeCount(id, call.locals.offices) <= 1

\* C13, amended: location resolution appends each distinct mapped value
\* (the whole string a RegionMap or AreaMap entry maps to) at most once,
\* however many hits map to it, and appends the value of every hit; an
\* office identifier is appended once for each distinct value that lists
\* it, which is twice when a city value listing two offices and an area
\* value naming one of them are both hit.
C13_EachValueOnce ==
    Rewritten =>
        LET hits == { call.locals.locations[i][2] : i \in 1..Len(call.locals.locations) }
        IN  /\ NoDuplicates(call.locals.offices)
            /\ Range(call.locals.offices) = hits
            /\ \A id \in OfficesIn(call.locals.offices) :
                   OfficeCount(id, call.locals.offices)
                       = Cardinality({ v \in hits : id \in OfficesOf(v) })

\* "pune talegaon" has been rewritten: "RO PUNE-I" is appended twice, once
\* with the city and once with the area.
C13_Witness ==
    /\ Rewritten
    /\ call.query = Q_pune_talegaon
    /\ Len(call.locals.locations) = 2
    /\ call.locals.offices = << Str("RO PUNE-I RO PUNE-II"), Str("RO PUNE-I") >>
    /\ OfficeCount(Str("RO PUNE-I"), call.locals.offices) = 2

----------------------------------------------------------------------------
(* C14                                                                     *)

\* The values the claim names for a lower-cased text: those of the RegionMap
\* and AreaMap keys that occur in it, and those of the RegionMap entries
\* whose value, lower-cased, contains a word captured after "ro" and white
\* space.
NamedOffices(text) ==
    { region_mappings[i][2] :
          i \in { k \in 1..Len(region_mappings) : IsIn(region_mappings[k][1], text) } }
    \cup { area_to_ro_mappings[i][2] :
          i \in { k \in 1..Len(area_to_ro_mappings) : IsIn(area_to_ro_mappings[k][1], text) } }
    \cup { region_mappings[i][2] :
          i \in { k \in 1..Len(region_mappings) :
                     \E w \in Range(FindallRo(text, 1)) :
                         IsIn(w, Lower(region_mappings[k][2])) } }

\* C14: the offices location resolution appends are exactly the values
\* named by the lower-cased corrected query: the value of every RegionMap
\* and AreaMap key occurring in it and of every RegionMap entry whose value
\* contains a word captured after "ro"; nothing else is appended as an
\* office, and the raw query plays no part.
C14_OfficesOfCorrectedQuery ==
    Rewritten =>
        Range(call.locals.offices) = NamedOffices(Lower(call.locals.corrected_query))

\* "bombay" has been rewritten: the raw query names no office, the
\* corrected query "mumbai" names the two Thane offices.
C14_Witness ==
    /\ Rewritten
    /\ call.query = Str("bombay")
    /\ call.locals.corrected_query = Str("mumbai")
    /\ NamedOffices(Lower(call.query)) = {}
    /\ call.locals.offices = << Str("RO THANE-I RO THANE-II") >>

----------------------------------------------------------------------------
(* C15                                                                     *)

\* The positions of the SynonymGroups entries whose list holds the token.
RootPositions(tl) ==
    { i \in 1..Len(semantic_synonyms) : tl \in Range(semantic_synonyms[i][2]) }

\* The least position of a set of positions.
Least(S) == CHOOSE i \in S : \A j \in S : i <= j

\* What the claim says one token resolves to.
C15_Resolved(t) ==
    LET tl == Lower(t)
    IN  IF tl \in TransliterationKeys
        THEN GetItem(marathi_transliteration_tokens, tl)
        ELSE IF RootPositions(tl) # {}
        THEN semantic_synonyms[Least(RootPositions(tl))][1]
        ELSE IF tl \in MixedLanguageKeys
        THEN GetItem(mixed_language_mappings, tl)
        ELSE t

\* C15: the normalizer resolves each white-space-delimited token on its
\* own, by exact match of the lower-cased token: the TransliterationMap
\* gloss first (also for a token that is a synonym too), else the first
\* root in SynonymGroups order whose list holds it, else the
\* MixedLanguageMap value, else the token in its own letter case; a token
\* that only contains a key stays as it is; the results are joined by
\* single spaces in input order.
C15_TokenPriority ==
    /\ Rewritten =>
          LET words == Split(call.query)
          IN  call.locals.mixed_query
                  = Join(<<32>>, [i \in 1..Len(words) |-> C15_Resolved(words[i])])
    /\ (Rewritten /\ call.query = Q_plots_madhe_aahet_ka) =>
          call.locals.mixed_query = Str("plots in are what")
    /\ (Rewritten /\ call.query = Str("big office")) =>
          call.locals.mixed_query = Str("big commercial")
    /\ (Rewritten /\ call.query = Str("kimi")) =>
          call.locals.mixed_query = Str("price")
    /\ (Rewritten /\ call.query = Str("puneee")) =>
          call.locals.mixed_query = Str("puneee")
    /\ (Rewritten /\ call.query = Str("Hello World")) =>
          call.locals.mixed_query = Str("Hello World")
    /\ (Rewritten /\ call.query = Str("PUNE")) =>
          call.locals.mixed_query = Str("pune")

\* "plots madhe aahet ka" has been rewritten: "aahet" is a TransliterationMap
\* key and a synonym of "available", and resolves to the gloss.
C15_Witness ==
    /\ Rewritten
    /\ call.query = Q_plots_madhe_aahet_ka
    /\ Str("aahet") \in TransliterationKeys
    /\ RootPositions(Str("aahet")) # {}
    /\ call.locals.mixed_query = Str("plots in are what")

----------------------------------------------------------------------------
(* C16                                                                     *)

\* C16: for every SynonymGroups root r and every single-token synonym s
\* listed under r, the normalizer applied to the one-token query s returns
\* r.
C16_SynonymResolvesToRoot ==
    (Rewritten /\ Len(Split(call.query)) = 1) =>
        \A i \in 1..Len(semantic_synonyms) :
            call.query \in Range(semantic_synonyms[i][2]) =>
                call.locals.mixed_query = semantic_synonyms[i][1]

----------------------------------------------------------------------------
(* C17                                                                     *)

\* The position of a key in a root -> list table.
PositionIn(table, key) == CHOOSE i \in 1..Len(table) : table[i][1] = key

\* The keys of a table one of whose list entries occurs in the text.
KeysPresent(table, text) ==
    { table[i][1] : i \in { k \in 1..Len(table) :
                                \E s \in Range(table[k][2]) : IsIn(s, text) } }

\* The list holds each key once, in the order of the table.
InTableOrder(list, table) ==
    \A a, b \in 1..Len(list) :
        a < b => PositionIn(table, list[a]) < PositionIn(table, list[b])

\* A concept field holds exactly the roots of its root set one of whose
\* synonyms occurs in the text, once each and in table order.
C17_Field(field, roots, text) ==
    /\ Range(field) = Range(roots) \cap KeysPresent(semantic_synonyms, text)
    /\ InTableOrder(field, semantic_synonyms)

\* C17: the concept record is presence detection on the lower-cased raw
\* query: each of locations, property_types, price_related and
\* availability_related holds exactly the roots of its root set one of
\* whose synonyms occurs as a substring, and intents holds exactly the
\* labels one of whose triggers occurs; every root and every label appears
\* at most once, in table order.
C17_PresenceDetection ==
    Rewritten =>
        LET c == call.locals.concepts
            text == Lower(call.query)
        IN  /\ C17_Field(c.locations, LocationRoots, text)
            /\ C17_Field(c.property_types, PropertyRoots, text)
            /\ C17_Field(c.price_related, PriceRoots, text)
            /\ C17_Field(c.availability_related, AvailabilityRoots, text)
            /\ Range(c.intents) = KeysPresent(intent_patterns, text)
            /\ InTableOrder(c.intents, intent_patterns)

\* "plots madhe aahet ka" has been rewritten: the record is that of the raw
\* query ("aahet" gives available and availability), not of the
\* normalized text "plots in are what".
C17_Witness ==
    /\ Rewritten
    /\ call.query = Q_plots_madhe_aahet_ka
    /\ call.locals.mixed_query = Str("plots in are what")
    /\ call.locals.concepts.property_types = << Str("plots") >>
    /\ call.locals.concepts.availability_related = << Str("available") >>
    /\ call.locals.concepts.intents
           = << Str("availability"), Str("location_search"), Str("property_type") >>
    /\ KeysPresent(intent_patterns, Lower(call.locals.mixed_query))
           # Range(call.locals.concepts.intents)

----------------------------------------------------------------------------
(* C18                                                                     *)

\* C18: for every text the corrector receives and every variant that
\* differs from its canonical form, if the variant occurs in the
\* lower-cased text then the corrected text, lower-cased, no longer
\* contains it, whatever the letter case of the occurrence and whatever
\* surrounds it.
C18_MisspellingsAreRemoved ==
    Rewritten =>
        \A v \in Misspellings :
            IsIn(v, Lower(call.locals.mixed_query)) =>
                ~IsIn(v, Lower(call.locals.corrected_query))

----------------------------------------------------------------------------
(* C19                                                                     *)

Q_show_cheapest_plots_in_pune == Str("show cheapest plots in pune")

AvailabilityPhrase == Str("available plots land")

\* The values RegionMap and AreaMap map to.
OfficeValues ==
    { region_mappings[i][2] : i \in 1..Len(region_mappings) }
        \cup { area_to_ro_mappings[i][2] : i \in 1..Len(area_to_ro_mappings) }

\* The labels PropertyTypeMap maps to.
PropertyLabelValues == { property_mappings[i][2] : i \in 1..Len(property_mappings) }

PricePhraseValues ==
    { Str("low cost affordable budget"), Str("high cost premium"), Str("price rate cost") }

IntentPhraseValues ==
    { Str("minimum lowest affordable"), Str("maximum biggest"),
      Str("compare different options") }

\* The step a phrase belongs to: 1 office identifiers, 2 property label,
\* 3 price phrase, 4 availability phrase, 5 intent phrase, 6 domain anchor;
\* 0 for any other string.
StepOf(p) ==
    IF p \in OfficeValues THEN 1
    ELSE IF p \in PropertyLabelValues THEN 2
    ELSE IF p \in PricePhraseValues THEN 3
    ELSE IF p = AvailabilityPhrase THEN 4
    ELSE IF p \in IntentPhraseValues THEN 5
    ELSE IF p = MidcAnchor THEN 6
    ELSE 0

\* C19: the result of improve_query begins with the corrected query; it is
\* the corrected query alone when the improvements list is empty, and
\* otherwise the corrected query, one space, and the improvements joined by
\* single spaces in step order: office identifiers, property labels, price
\* phrases, the availability phrase, intent phrases, the domain anchor.
C19_OutputLayout ==
    Rewritten =>
        LET imp == call.locals.improvements
            cq == call.locals.corrected_query
        IN  /\ SubSeq(call.improved_query, 1, Len(cq)) = cq
            /\ Len(imp) = 0 => call.improved_query = cq
            /\ Len(imp) > 0 =>
                   call.improved_query = cq \o <<32>> \o Join(<<32>>, imp)
            /\ \A a \in 1..Len(imp) : StepOf(imp[a]) \in 1..6
            /\ \A a, b \in 1..Len(imp) : a < b => StepOf(imp[a]) <= StepOf(imp[b])

\* A query that makes every one of the six steps append has been rewritten.
C19_Witness ==
    /\ Rewritten
    /\ call.query = Q_show_cheapest_plots_in_pune
    /\ { StepOf(call.locals.improvements[a]) : a \in 1..Len(call.locals.improvements) }
           = 1..6
    /\ call.improved_query =
           Str("show cheapest plots in pune RO PUNE-I RO PUNE-II Industrial low cost affordable budget available plots land minimum lowest affordable MIDC Industrial Area")

----------------------------------------------------------------------------
(* C20                                                                     *)

\* How many entries of a list equal a phrase.
Occurrences(p, list) == Cardinality({ a \in 1..Len(list) : list[a] = p })

\* One of the four concept fields of the record is non-empty.
SomeConceptField(c) ==
    \/ Len(c.locations) > 0
    \/ Len(c.property_types) > 0
    \/ Len(c.price_related) > 0
    \/ Len(c.availability_related) > 0

\* The text ends with the given suffix.
EndsWith(s, suffix) ==
    /\ Len(s) >= Len(suffix)
    /\ SubSeq(s, Len(s) - Len(suffix) + 1, Len(s)) = suffix

\* C20: the anchor "MIDC Industrial Area" is appended exactly when one of
\* locations, property_types, price_related, availability_related is
\* non-empty, never for detected intents alone, and it is then the last
\* phrase of the output; "available plots land" is appended once exactly
\* when availability_related is non-empty.
C20_AnchorAndAvailability ==
    Rewritten =>
        LET imp == call.locals.improvements
            c == call.locals.concepts
        IN  /\ Occurrences(MidcAnchor, imp) = (IF SomeConceptField(c) THEN 1 ELSE 0)
            /\ SomeConceptField(c) =>
                   /\ imp[Len(imp)] = MidcAnchor
                   /\ EndsWith(call.improved_query, <<32>> \o MidcAnchor)
            /\ (~SomeConceptField(c) /\ Len(c.intents) > 0) => ~InList(MidcAnchor, imp)
            /\ Occurrences(AvailabilityPhrase, imp)
                   = (IF Len(c.availability_related) > 0 THEN 1 ELSE 0)

\* "largest" has been rewritten: an intent is detected and its phrase
\* appended, no concept field is filled and no anchor is appended.
C20_Witness ==
    /\ Rewritten
    /\ call.query = Str("largest")
    /\ call.locals.concepts.intents = << Str("largest") >>
    /\ ~SomeConceptField(call.locals.concepts)
    /\ call.locals.improvements = << Str("maximum biggest") >>
    /\ call.improved_query = Str("largest maximum biggest")

----------------------------------------------------------------------------
(* C26                                                                     *)

\* C26 as stated: whenever at least one office identifier is appended, the
\* anchor "MIDC Industrial Area" is appended too.
C26_OfficeImpliesAnchor ==
    Rewritten =>
        (Len(call.locals.offices) > 0 => InList(MidcAnchor, call.locals.improvements))

\* C26 as the code has it: offices are found in the corrected query, the
\* anchor follows the concept record of the raw query.  With an office
\* appended the anchor is appended exactly when one of the four concept
\* fields is non-empty; a detected location concept always brings the
\* anchor; "talegaon" and "puna" get their offices and no anchor.
C26_AnchorFollowsConcepts ==
    Rewritten =>
        LET imp == call.locals.improvements
            c == call.locals.concepts
        IN  /\ Len(call.locals.offices) > 0 =>
                   (InList(MidcAnchor, imp) <=> SomeConceptField(c))
            /\ Len(c.locations) > 0 => InList(MidcAnchor, imp)
            /\ call.query = Str("talegaon") =>
                   call.improved_query = Str("talegaon RO PUNE-I")
            /\ call.query = Str("puna") =>
                   call.improved_query = Str("pune RO PUNE-I RO PUNE-II")

\* "talegaon" has been rewritten: an office is appended, the concept record
\* is empty and the anchor is missing.
C26_Witness ==
    /\ Rewritten
    /\ call.query = Str("talegaon")
    /\ call.locals.offices = << Str("RO PUNE-I") >>
    /\ ~SomeConceptField(call.locals.concepts)
    /\ ~InList(MidcAnchor, call.locals.improvements)

----------------------------------------------------------------------------
(* C27                                                                     *)

\* The corrected text of the call, corrected once more.
CorrectedAgain == _handle_spelling_mistakes(handler, call.locals.corrected_query)

\* A misspelling occurs in the text, in lower case.
HoldsMisspelling(text) == \E v \in Misspellings : IsIn(v, text)

\* C27 as stated: correcting the corrected text again changes nothing.
C27_CorrectorIsIdempotent ==
    Rewritten => CorrectedAgain = call.locals.corrected_query

\* C27 as the code has it: every pair is visited once per call, so a
\* second call changes the corrected text exactly when a lower-case
\* misspelling is still (or again) in it; "puneee" becomes "punee" and only
\* the second call yields "pune".
C27_FixedPointOnlyWithoutMisspelling ==
    Rewritten =>
        /\ (CorrectedAgain = call.locals.corrected_query)
               <=> ~HoldsMisspelling(call.locals.corrected_query)
        /\ call.query = Str("puneee") =>
               /\ call.locals.corrected_query = Str("punee")
               /\ CorrectedAgain = Str("pune")

\* "puneee" has been rewritten: the corrected text still holds a
\* misspelling and a second correction changes it.
C27_Witness ==
    /\ Rewritten
    /\ call.query = Str("puneee")
    /\ HoldsMisspelling(call.locals.corrected_query)
    /\ CorrectedAgain # call.locals.corrected_query

----------------------------------------------------------------------------
(* C28                                                                     *)

\* C28: every secondary pattern is a key of marathi_transliteration_tokens,
\* so whenever fewer than two keys occur fewer than two patterns occur, and
\* the classifier returns true exactly when the query holds a Devanagari
\* character or at least two keys occur in the lower-cased query.
C28_ThirdRuleNeverDecides ==
    /\ Range(marathi_patterns) \subseteq TransliterationKeys
    /\ Classified =>
           /\ pattern_count(Lower(call.query)) <= Cardinality(KeysOccurring(call.query))
           /\ call.marathi <=>
                  (HasDevanagariChar(call.query)
                       \/ Cardinality(KeysOccurring(call.query)) >= 2)

\* "kashmir" has been classified: the third rule is evaluated (no
\* Devanagari, one key) and finds the one pattern "ka".
C28_Witness ==
    /\ Classified
    /\ call.query = Str("kashmir")
    /\ ~has_devanagari(call.query)
    /\ marathi_tokens_found(handler, Lower(call.query)) = 1
    /\ pattern_count(Lower(call.query)) = 1
    /\ ~call.marathi

----------------------------------------------------------------------------
(* C21                                                                     *)

\* What a freshly constructed handler, called by one caller at a time,
\* returns for the query.
SequentialResult(q) == improve_query(SmartQueryHandler, q).improved_query

\* C21: with two interleaved invocations on the shared handler, every
\* normalization stores the flag of its own query in the handler, whatever
\* another invocation stored before (last writer wins), no other step
\* touches the handler, and every invocation returns the string a
\* sequential execution returns for its query.
C21_LastWriterWins ==
    /\ [](\A t \in Invocations :
             threads[t].pc = "returned" =>
                 /\ ~threads[t].raised
                 /\ threads[t].improved_query = SequentialResult(threads[t].query))
    /\ [][ \A t \in Invocations :
             (threads[t].pc = "called" /\ threads'[t].pc = "normalized") =>
                 /\ handler'.has_last_query_was_transliteration
                 /\ handler'.last_query_was_transliteration
                        = SomeTokenIsTransliteration(threads[t].query)
                 /\ Tables(handler') = Tables(handler)
         ]_vars
    /\ [][ (\A t \in Invocations : threads'[t].pc # "normalized" \/ threads[t].pc # "called")
               => handler' = handler ]_vars

\* Invocation A has finished its normalization and has not returned yet,
\* invocation B has normalized after it, and the flag in the handler is the
\* one of B's query and not the one of A's.
C21_Witness ==
    /\ threads["A"].pc = "normalized"
    /\ threads["B"].pc \in {"normalized", "returned"}
    /\ handler.has_last_query_was_transliteration
    /\ handler.last_query_was_transliteration = threads["B"].flag
    /\ handler.last_query_was_transliteration # threads["A"].flag
    /\ threads["A"].flag = SomeTokenIsTransliteration(threads["A"].query)

----------------------------------------------------------------------------
(* C25                                                                     *)

\* The passes after which ExpectedTotal records are there when every page
\* is full.
PagesToExpectedTotal == (ExpectedTotal + FullPage - 1) \div FullPage

\* C25: the page loop ends whatever the server answers, after at most
\* PagesToExpectedTotal requests (every pass that continues has added at
\* least FullPage records), and with max_pages >= 1 it makes at most
\* max_pages requests.
C25_LoopTerminates ==
    /\ [](scraper.requests <= PagesToExpectedTotal)
    /\ [](scraper.max_pages >= 1 => scraper.requests <= scraper.max_pages)
    /\ [](scraper.pc = "loop" => scraper.total >= FullPage * scraper.requests)
    /\ (scraper.pc = "loop") ~> (scraper.pc = "done")

\* The server has answered every request with a full page and no limit was
\* given: the loop has left at the expected total after
\* PagesToExpectedTotal requests.
C25_Witness ==
    /\ scraper.pc = "done"
    /\ scraper.max_pages = 0
    /\ scraper.message = "expected total"
    /\ scraper.requests = PagesToExpectedTotal
    /\ scraper.total = FullPage * PagesToExpectedTotal

----------------------------------------------------------------------------
(* C22                                                                     *)

\* C22: a request whose message is empty or white space only is answered
\* with status 400 and detail "Message cannot be empty", and query is not
\* called for it.
C22_BlankMessageGets400 ==
    (service.pc = "responded" /\ IsBlank(service.message)) =>
        /\ service.response.status = 400
        /\ service.response.detail = "Message cannot be empty"
        /\ ~service.queried

----------------------------------------------------------------------------
(* C23                                                                     *)

\* The memory with the question and the answer of the request added.
MemoryWithExchange ==
    service.memory \o << [type |-> "human", content |-> service.message],
                         [type |-> "ai", content |-> service.answer] >>

\* C23: while a request is handled the memory changes in one step only,
\* after the model has generated an answer, and then by the question
\* followed by the answer; a greeting and a failed generation return with
\* the memory as it was, the failed one with the apology, no sources,
\* confidence 0.0 and is_greeting false, and the response has status 200.
C23_MemoryAfterGeneration ==
    /\ [][ (service.pc # "idle" /\ service'.memory # service.memory) =>
              /\ service.pc = "generated"
              /\ service.generation = "ok"
              /\ ~_is_greeting(service.message)
              /\ service'.memory = MemoryWithExchange
         ]_vars
    /\ [](service.pc = "generated" => service.answer \in GeneratedTexts)
    /\ []((service.pc = "returned" /\ service.generation = "raised") =>
              service.result = [ answer |-> ApologyAnswer, sources |-> <<>>,
                                 confidence |-> 0, chat_history |-> <<>>,
                                 is_greeting |-> FALSE ])
    /\ [][ (service.pc # "idle"
               /\ (_is_greeting(service.message) \/ service'.generation = "raised")) =>
              service'.memory = service.memory
         ]_vars
    /\ []((service.pc = "returned" /\ service.result.is_greeting) =>
              /\ service.generation = "none"
              /\ service.result.sources = <<>>)
    /\ []((service.pc = "responded" /\ service.generation = "raised") =>
              service.response.status = 200 /\ service.response.body = service.result)
    /\ [](\A i \in 1..Len(service.memory) :
              service.memory[i].type = (IF i % 2 = 1 THEN "human" ELSE "ai"))

\* A generation has failed after an earlier exchange was stored: query has
\* returned the apology and the memory still holds that one exchange.
C23_Witness ==
    /\ service.pc = "returned"
    /\ service.generation = "raised"
    /\ service.result.answer = ApologyAnswer
    /\ Len(service.memory) = 2
    /\ service.memory[1].type = "human"
    /\ service.memory[2].type = "ai"
    /\ service.memory[1].content # service.message

----------------------------------------------------------------------------
(* C24                                                                     *)

\* The sources are matches of the list, in the order of the list.
InRankOrder(sources, matches) ==
    \E f \in [1..Len(sources) -> 1..Len(matches)] :
        /\ \A i \in 1..Len(sources) :
               /\ matches[f[i]].id = sources[i].id
               /\ matches[f[i]].score = sources[i].score
        /\ \A i, j \in 1..Len(sources) : i < j => f[i] < f[j]

\* C24: every source the search returns has a score of at least the
\* threshold, the sources are in the order in which the search service
\* listed them, and a search that raised yields no source; the sources of
\* the result are those of the search.
C24_SourcesAboveThreshold ==
    /\ \A i \in 1..Len(service.sources) : service.sources[i].score >= SimilarityThreshold
    /\ \A i \in 1..Len(service.result.sources) :
           service.result.sources[i].score >= SimilarityThreshold
    /\ service.pc = "searched" =>
           /\ service.search = "raised" => service.sources = <<>>
           /\ service.search = "ok" => InRankOrder(service.sources, service.matches)
    /\ (service.pc = "returned" /\ service.generation = "ok") =>
           service.result.sources = service.sources

\* The search has returned three matches of which the second is below the
\* threshold: the first and the third are the sources, in this order.
C24_Witness ==
    /\ service.pc = "searched"
    /\ service.search = "ok"
    /\ Len(service.matches) = 3
    /\ service.matches[1].score = 30
    /\ service.matches[2].score = 29
    /\ service.matches[3].score = 85
    /\ service.sources = << [id |-> 2, score |-> 30], [id |-> 1, score |-> 85] >>

----------------------------------------------------------------------------
(* C29                                                                     *)

\* C29: the history put into the prompt of a request holds questions of the
\* requesting client only (the answers follow their questions in the
\* memory).
C29_HistoryOfOwnConversation ==
    service.pc = "prompted" =>
        \A i \in 1..Len(service.history) :
            service.history[i].type = "human" =>
                service.history[i].content \in OwnQuestions(service.client)

====
